---- MODULE Spec2Model ----
(***************************************************************************)
(* Model of the tree-scoped API of the traumabomen backend: the bulk sync  *)
(* endpoint (api/app/routers/sync.py) and the single-record handlers that  *)
(* share its store (persons, relationships, linked entities and their      *)
(* junction rows).  The store is a PostgreSQL database reached through one *)
(* SQLAlchemy session per request; a request works on its session's view   *)
(* of the store and either commits it or rolls it back.                    *)
(***************************************************************************)
EXTENDS Integers, Sequences, FiniteSets, TLC

VARIABLES db,     \* the committed contents of the database
          pre,    \* the committed contents when the request in hand arrived
          req,    \* the request in hand (NoReq between requests)
          resp,   \* the response to the request in hand
          log,    \* the row operations the handler issued, in order (the junction
                  \* rows of the create phase as "link" entries)
          calls,  \* the number of requests handled so far
          syncs,  \* the number of sync calls among them
          now,      \* the server clock, in hours
          settings, \* the settings the application runs with
          drawn,    \* the number of random values (uuid4, token_urlsafe) drawn
          txs       \* the sync calls in flight when two run concurrently, each
                    \* with its database transaction

vars == <<db, pre, req, resp, log, calls, syncs, now, settings, drawn, txs>>

\* What the tree-scoped handlers never touch.
host == <<now, settings, drawn, txs>>

(***************************************************************************)
(* Universes of the inputs.                                                *)
(***************************************************************************)
\* Python's None for an optional id (ids are positive), for an optional
\* encrypted_data and for an optional person_ids list.
None == 0
NoData == "none"
NoList == <<None>>

Users == {"u1", "u2"}
TreeIds == {1, 2}
PersonIds == {1, 2, 3}
RelationshipIds == {1, 2}
EntityIds == {1, 2}
NewBlob == "a"
UpdatedBlob == "b"

\* The linked-entity kinds the sync endpoint handles.
LinkedKinds == {"event", "classification", "pattern"}
Kinds == {"person", "relationship"} \cup LinkedKinds

IdsOf(kind) ==
    IF kind = "person" THEN PersonIds
    ELSE IF kind = "relationship" THEN RelationshipIds
    ELSE EntityIds

Range(seq) == {seq[i] : i \in 1..Len(seq)}

Min(S) == CHOOSE x \in S : \A y \in S : x <= y

(***************************************************************************)
(* The store.  Every table is a set of rows; ids are primary keys.         *)
(***************************************************************************)
EmptyDb ==
    [trees |-> {}, persons |-> {}, relationships |-> {},
     entities |-> {}, links |-> {}]

\* select(Person.id).where(Person.tree_id == tree_id)
PersonsOfTree(d, tree_id) == {p.id : p \in {q \in d.persons : q.tree = tree_id}}

\* The ids in use in the table of a kind, whatever the tree.
TableIds(d, kind) ==
    IF kind = "person" THEN {p.id : p \in d.persons}
    ELSE IF kind = "relationship" THEN {r.id : r \in d.relationships}
    ELSE {e.id : e \in {x \in d.entities : x.kind = kind}}

\* select(model).where(model.id == id, model.tree_id == tree_id)
RowIdsOfTree(d, kind, tree_id) ==
    IF kind = "person" THEN PersonsOfTree(d, tree_id)
    ELSE IF kind = "relationship"
        THEN {r.id : r \in {x \in d.relationships : x.tree = tree_id}}
    ELSE {e.id : e \in {x \in d.entities : x.kind = kind /\ x.tree = tree_id}}

\* The person ids a linked entity is associated with (its person_links).
PersonLinks(d, kind, id) ==
    {l.pid : l \in {x \in d.links : x.kind = kind /\ x.eid = id}}


(***************************************************************************)
(* Row operations of a session.  A delete takes the rows that depend on    *)
(* the deleted row with it, as the mapped relationships and the foreign    *)
(* keys say.                                                               *)
(***************************************************************************)

\* Fault variant of CascadeRelationships: the relationships of a deleted
\* person stay.
keep_relationships(rels, pid) == rels

\* Person.source_relationships / target_relationships: cascade="all, delete-orphan".
CascadeRelationships(rels, pid) == {r \in rels : r.src # pid /\ r.tgt # pid}

\* Person.event_links (cascade) and EventPerson.person_id (ondelete CASCADE).
CascadeEventLinks(links, pid) ==
    {l \in links : ~(l.kind = "event" /\ l.pid = pid)}

\* The person_id foreign key of the other junction tables (ondelete CASCADE).
CascadeJunctionLinks(links, pid) ==
    {l \in links : ~(l.kind # "event" /\ l.pid = pid)}

\* TraumaEvent.person_links: cascade="all, delete-orphan".
CascadePersonLinks(links, kind, id) ==
    {l \in links : ~(l.kind = kind /\ l.eid = id)}

\* db.delete(entity) followed by the flush that issues it.
DeleteRow(d, kind, id) ==
    IF kind = "person" THEN
        [d EXCEPT !.persons = {p \in @ : p.id # id},
                  !.relationships = CascadeRelationships(@, id),
                  !.links = CascadeJunctionLinks(CascadeEventLinks(@, id), id)]
    ELSE IF kind = "relationship" THEN
        [d EXCEPT !.relationships = {r \in @ : r.id # id}]
    ELSE
        [d EXCEPT !.entities = {e \in @ : ~(e.kind = kind /\ e.id = id)},
                  !.links = CascadePersonLinks(@, kind, id)]

\* The row of a kind with the given id.
RowOf(d, kind, id) ==
    IF kind = "person" THEN CHOOSE p \in d.persons : p.id = id
    ELSE IF kind = "relationship" THEN CHOOSE r \in d.relationships : r.id = id
    ELSE CHOOSE e \in d.entities : e.kind = kind /\ e.id = id

\* uuid.uuid4(): an id that is in use nowhere, neither in the table nor in
\* the request in hand.
uuid4(d, kind, avoid) == Min(IdsOf(kind) \ (TableIds(d, kind) \cup avoid))

(***************************************************************************)
(* The sync request and response (api/app/schemas/sync.py).  body.create,  *)
(* body.update and body.delete map each kind to its list, for example      *)
(* body.create["person"] is persons_create.                                *)
(***************************************************************************)
SyncResponse ==
    [status |-> 200, detail |-> [msg |-> "ok"],
     created |-> [k \in Kinds |-> <<>>],
     updated |-> [k \in Kinds |-> 0],
     deleted |-> [k \in Kinds |-> 0]]

\* The state of a sync call between two statements: the session's view of
\* the store, the response built so far, whether an INSERT the session
\* holds will fail at the next flush, and the exception raised, if any.
SessionOf(d) ==
    [db |-> d, resp |-> SyncResponse, dup |-> FALSE, log |-> <<>>]

Raised(s) == s.resp.status # 200

HTTPException(s, status_code, detail) ==
    [s EXCEPT !.resp.status = status_code, !.resp.detail = detail]

\* db.flush(): a pending INSERT of a primary key in use raises IntegrityError.
flush(s) ==
    IF ~Raised(s) /\ s.dup THEN HTTPException(s, 500, [msg |-> "internal_server_error"])
    ELSE s

\* The ids a request names, which no generated id can equal.
ItemIds(items) == {items[i].id : i \in 1..Len(items)} \ {None}

ListIds(person_ids) == IF person_ids = NoList THEN {} ELSE Range(person_ids)

NamedIds(body, kind) ==
    LET own == ItemIds(body.create[kind]) \cup ItemIds(body.update[kind])
                 \cup ItemIds(body.delete[kind])
        rels == body.create["relationship"] \o body.update["relationship"]
        refs == {rels[i].src : i \in 1..Len(rels)}
                  \cup {rels[i].tgt : i \in 1..Len(rels)}
        lists == UNION {
                   UNION {ListIds(body.create[k][i].person_ids) :
                            i \in 1..Len(body.create[k])}
                   \cup
                   UNION {ListIds(body.update[k][i].person_ids) :
                            i \in 1..Len(body.update[k])}
                   : k \in LinkedKinds}
    IN IF kind = "person" THEN (own \cup refs \cup lists) \ {None} ELSE own


(***************************************************************************)
(* The phases of a sync call (api/app/routers/sync.py).  Every operator    *)
(* takes the session state s and returns the session state after it; once  *)
(* an exception is raised nothing further is executed.                     *)
(***************************************************************************)

\* Fault variant of _validate_person_ids_in_tree: every reference is accepted.
accept_any_person_ids(person_ids, tree_id, s) == s

\* Fault variant of _validate_person_ids_in_tree: the detail lists every id
\* given, missing or not.
report_all_given_ids(person_ids, tree_id, s) ==
    IF Range(person_ids) \subseteq PersonsOfTree(s.db, tree_id) THEN s
    ELSE HTTPException(s, 422, [msg |-> "person_ids_not_found", missing |-> Range(person_ids)])

\* _validate_person_ids_in_tree: 422 naming the ids that are no person of the tree.
validate_person_ids_in_tree(person_ids, tree_id, s) ==
    LET found == PersonsOfTree(s.db, tree_id) \cap Range(person_ids)
        missing == Range(person_ids) \ found
    IN IF person_ids = <<>> THEN s
       ELSE IF missing # {} THEN HTTPException(s, 422, [msg |-> "person_ids_not_found", missing |-> missing])
       ELSE s

\* Fault variant of _delete_by_tree: count += 1 for every item, found or not.
RECURSIVE delete_by_tree_counting_all(_, _, _, _)
delete_by_tree_counting_all(kind, items, tree_id, s) ==
    IF items = <<>> THEN s
    ELSE LET id == Head(items).id
             entity == id \in RowIdsOfTree(s.db, kind, tree_id)
             s1 == IF entity
                   THEN [s EXCEPT !.db = DeleteRow(@, kind, id),
                                  !.resp.deleted[kind] = @ + 1,
                                  !.log = Append(@, [op |-> "delete", kind |-> kind, id |-> id])]
                   ELSE [s EXCEPT !.resp.deleted[kind] = @ + 1]
         IN delete_by_tree_counting_all(kind, Tail(items), tree_id, s1)

\* Fault variant of _delete_by_tree: the row is selected by its id alone.
RECURSIVE delete_by_id(_, _, _, _)
delete_by_id(kind, items, tree_id, s) ==
    IF items = <<>> THEN s
    ELSE LET id == Head(items).id
             entity == id \in TableIds(s.db, kind)
             s1 == IF entity
                   THEN [s EXCEPT !.db = DeleteRow(@, kind, id),
                                  !.resp.deleted[kind] = @ + 1,
                                  !.log = Append(@, [op |-> "delete", kind |-> kind, id |-> id])]
                   ELSE s
         IN delete_by_id(kind, Tail(items), tree_id, s1)

\* _delete_by_tree: delete the rows of the tree the items name, count them.
RECURSIVE delete_by_tree(_, _, _, _)
delete_by_tree(kind, items, tree_id, s) ==
    IF items = <<>> THEN s
    ELSE LET id == Head(items).id
             entity == id \in RowIdsOfTree(s.db, kind, tree_id)
             s1 == IF entity
                   THEN [s EXCEPT !.db = DeleteRow(@, kind, id),
                                  !.resp.deleted[kind] = @ + 1,
                                  !.log = Append(@, [op |-> "delete", kind |-> kind, id |-> id])]
                   ELSE s
         IN delete_by_tree(kind, Tail(items), tree_id, s1)

\* Fault variant of _phase_deletes: persons are deleted first.
phase_deletes_persons_first(body, tree_id, s) ==
    LET s1 == delete_by_tree("person", body.delete["person"], tree_id, s)
        s2 == delete_by_tree("relationship", body.delete["relationship"], tree_id, s1)
        s3 == delete_by_tree("classification", body.delete["classification"], tree_id, s2)
        s4 == delete_by_tree("event", body.delete["event"], tree_id, s3)
        s5 == delete_by_tree("pattern", body.delete["pattern"], tree_id, s4)
    IN flush(s5)

\* _phase_deletes
phase_deletes(body, tree_id, s) ==
    LET s1 == delete_by_tree("relationship", body.delete["relationship"], tree_id, s)
        s2 == delete_by_tree("classification", body.delete["classification"], tree_id, s1)
        s3 == delete_by_tree("event", body.delete["event"], tree_id, s2)
        s4 == delete_by_tree("pattern", body.delete["pattern"], tree_id, s3)
        s5 == delete_by_tree("person", body.delete["person"], tree_id, s4)
    IN flush(s5)

\* _collect_referenced_person_ids
RECURSIVE Flatten(_)
Flatten(lists) ==
    IF lists = <<>> THEN <<>> ELSE Head(lists) \o Flatten(Tail(lists))

collect_referenced_person_ids(body) ==
    LET rels == body.create["relationship"]
        PersonIdsOf(items) == Flatten([i \in 1..Len(items) |-> items[i].person_ids])
    IN Flatten([i \in 1..Len(rels) |-> <<rels[i].src, rels[i].tgt>>])
         \o PersonIdsOf(body.create["event"])
         \o PersonIdsOf(body.create["classification"])
         \o PersonIdsOf(body.create["pattern"])

\* db.add(row): the INSERT is pending until the next flush, where it fails
\* if the primary key is in use.
AddRow(s, kind, row) ==
    IF row.id \in TableIds(s.db, kind) THEN [s EXCEPT !.dup = TRUE]
    ELSE IF kind = "person"
        THEN [s EXCEPT !.db.persons = @ \cup {row}]
    ELSE IF kind = "relationship"
        THEN [s EXCEPT !.db.relationships = @ \cup {row}]
    ELSE [s EXCEPT !.db.entities = @ \cup {row}]

\* db.add(EventPerson(event_id=..., person_id=...)) and its siblings.
AddLink(s, kind, eid, pid) ==
    LET row == [kind |-> kind, eid |-> eid, pid |-> pid]
    IN IF row \in s.db.links THEN [s EXCEPT !.dup = TRUE]
       ELSE [s EXCEPT !.db.links = @ \cup {row}]

RECURSIVE AddLinks(_, _, _, _)
AddLinks(s, kind, eid, person_ids) ==
    IF person_ids = <<>> THEN s
    ELSE AddLinks(AddLink(s, kind, eid, Head(person_ids)), kind, eid, Tail(person_ids))

\* Fault variant of _create_encrypted_entities: "uuid.uuid4() or item.id", a
\* new id even where the client supplied one.
RECURSIVE create_entities_ignoring_client_id(_, _, _, _, _)
create_entities_ignoring_client_id(kind, items, tree_id, avoid, s) ==
    IF items = <<>> THEN s
    ELSE LET item == Head(items)
             id == IF IdsOf(kind) \ (TableIds(s.db, kind) \cup avoid) # {}
                   THEN uuid4(s.db, kind, avoid) ELSE item.id
             entity == IF kind = "person"
                       THEN [id |-> id, tree |-> tree_id, data |-> item.data]
                       ELSE [kind |-> kind, id |-> id, tree |-> tree_id, data |-> item.data]
             s1 == [AddRow(s, kind, entity) EXCEPT
                      !.resp.created[kind] = Append(@, id),
                      !.log = Append(@, [op |-> "create", kind |-> kind, id |-> id])]
         IN create_entities_ignoring_client_id(kind, Tail(items), tree_id,
                                               avoid \cup {id}, s1)

\* _create_encrypted_entities: one row per item, its id the item's or a new one.
RECURSIVE create_encrypted_entities(_, _, _, _, _)
create_encrypted_entities(kind, items, tree_id, avoid, s) ==
    IF items = <<>> THEN s
    ELSE LET item == Head(items)
             id == IF item.id # None THEN item.id ELSE uuid4(s.db, kind, avoid)
             entity == IF kind = "person"
                       THEN [id |-> id, tree |-> tree_id, data |-> item.data]
                       ELSE [kind |-> kind, id |-> id, tree |-> tree_id, data |-> item.data]
             s1 == [AddRow(s, kind, entity) EXCEPT
                      !.resp.created[kind] = Append(@, id),
                      !.log = Append(@, [op |-> "create", kind |-> kind, id |-> id])]
         IN create_encrypted_entities(kind, Tail(items), tree_id, avoid \cup {id}, s1)

\* The loop over relationships_create in _phase_creates.
RECURSIVE create_relationships(_, _, _, _)
create_relationships(items, tree_id, avoid, s) ==
    IF items = <<>> THEN s
    ELSE LET item == Head(items)
             id == IF item.id # None THEN item.id
                   ELSE uuid4(s.db, "relationship", avoid)
             rel == [id |-> id, tree |-> tree_id, src |-> item.src,
                     tgt |-> item.tgt, data |-> item.data]
             s1 == [AddRow(s, "relationship", rel) EXCEPT
                      !.resp.created["relationship"] = Append(@, id),
                      !.log = Append(@, [op |-> "create", kind |-> "relationship", id |-> id])]
         IN create_relationships(Tail(items), tree_id, avoid \cup {id}, s1)

\* The log entries of the junction rows added for one create item.
LinkEntries(kind, eid, person_ids) ==
    [i \in 1..Len(person_ids) |->
        [op |-> "link", kind |-> kind, id |-> eid, pid |-> person_ids[i]]]

\* Fault variant of _add_junction_rows: every item's rows carry the first
\* created id of the kind.
RECURSIVE junction_rows_of_first_created(_, _, _, _)
junction_rows_of_first_created(kind, items, created, s) ==
    IF items = <<>> \/ created = <<>> THEN s
    ELSE junction_rows_of_first_created(
             kind, Tail(items), created,
             [AddLinks(s, kind, Head(created), Head(items).person_ids) EXCEPT
                 !.log = @ \o LinkEntries(kind, Head(created), Head(items).person_ids)])

\* _add_junction_rows: the rows of the i-th item carry the i-th created id.
RECURSIVE zip_junction_rows(_, _, _, _)
zip_junction_rows(kind, items, created, s) ==
    IF items = <<>> \/ created = <<>> THEN s
    ELSE zip_junction_rows(
             kind, Tail(items), Tail(created),
             [AddLinks(s, kind, Head(created), Head(items).person_ids) EXCEPT
                 !.log = @ \o LinkEntries(kind, Head(created), Head(items).person_ids)])

add_junction_rows(body, s) ==
    LET s1 == zip_junction_rows("event", body.create["event"], s.resp.created["event"], s)
        s2 == zip_junction_rows("classification", body.create["classification"],
                                s1.resp.created["classification"], s1)
    IN zip_junction_rows("pattern", body.create["pattern"],
                         s2.resp.created["pattern"], s2)

\* Fault variant of _phase_creates: the references are validated before the
\* persons of the batch are inserted.
phase_creates_validating_first(body, tree_id, s) ==
    LET all_person_ids == collect_referenced_person_ids(body)
        s1 == validate_person_ids_in_tree(all_person_ids, tree_id, s)
        s2 == IF Raised(s1) THEN s1
              ELSE flush(create_encrypted_entities("person", body.create["person"], tree_id,
                                                   NamedIds(body, "person"), s1))
        s3 == create_relationships(body.create["relationship"], tree_id,
                                   NamedIds(body, "relationship"), s2)
        s4 == create_encrypted_entities("event", body.create["event"], tree_id,
                                        NamedIds(body, "event"), s3)
        s5 == create_encrypted_entities("classification", body.create["classification"],
                                        tree_id, NamedIds(body, "classification"), s4)
        s6 == create_encrypted_entities("pattern", body.create["pattern"], tree_id,
                                        NamedIds(body, "pattern"), s5)
        s7 == flush(s6)
    IN IF Raised(s) THEN s
       ELSE IF Raised(s2) THEN s2
       ELSE IF Raised(s7) THEN s7
       ELSE flush(add_junction_rows(body, s7))

\* _phase_creates
phase_creates(body, tree_id, s) ==
    LET s1 == flush(create_encrypted_entities("person", body.create["person"], tree_id,
                                              NamedIds(body, "person"), s))
        all_person_ids == collect_referenced_person_ids(body)
        s2 == IF Raised(s1) THEN s1
              ELSE validate_person_ids_in_tree(all_person_ids, tree_id, s1)
        s3 == create_relationships(body.create["relationship"], tree_id,
                                   NamedIds(body, "relationship"), s2)
        s4 == create_encrypted_entities("event", body.create["event"], tree_id,
                                        NamedIds(body, "event"), s3)
        s5 == create_encrypted_entities("classification", body.create["classification"],
                                        tree_id, NamedIds(body, "classification"), s4)
        s6 == create_encrypted_entities("pattern", body.create["pattern"], tree_id,
                                        NamedIds(body, "pattern"), s5)
        s7 == flush(s6)
    IN IF Raised(s) THEN s
       ELSE IF Raised(s2) THEN s2
       ELSE IF Raised(s7) THEN s7
       \* The junction rows are flushed by the next query or by the commit.
       ELSE flush(add_junction_rows(body, s7))


\* Fault variant of the persons_update loop: an unknown id is skipped.
RECURSIVE update_persons_skipping_unknown(_, _, _)
update_persons_skipping_unknown(items, tree_id, s) ==
    IF items = <<>> \/ Raised(s) THEN s
    ELSE LET item == Head(items)
             person == RowOf(s.db, "person", item.id)
             s1 == IF item.id \notin RowIdsOfTree(s.db, "person", tree_id)
                   THEN s
                   ELSE [s EXCEPT
                           !.db.persons = (@ \ {person})
                                            \cup {[person EXCEPT !.data = item.data]},
                           !.resp.updated["person"] = @ + 1,
                           !.log = Append(@, [op |-> "update", kind |-> "person",
                                              id |-> item.id])]
         IN update_persons_skipping_unknown(Tail(items), tree_id, s1)

\* The loop over persons_update in _phase_updates.
RECURSIVE update_persons(_, _, _)
update_persons(items, tree_id, s) ==
    IF items = <<>> \/ Raised(s) THEN s
    ELSE LET item == Head(items)
             person == RowOf(s.db, "person", item.id)
             s1 == IF item.id \notin RowIdsOfTree(s.db, "person", tree_id)
                   THEN HTTPException(s, 404, [msg |-> "not_found", kind |-> "person", id |-> item.id])
                   ELSE [s EXCEPT
                           !.db.persons = (@ \ {person})
                                            \cup {[person EXCEPT !.data = item.data]},
                           !.resp.updated["person"] = @ + 1,
                           !.log = Append(@, [op |-> "update", kind |-> "person",
                                              id |-> item.id])]
         IN update_persons(Tail(items), tree_id, s1)

\* Fault variant of a relationships_update item: the three fields are set
\* whether the item provides them or not.
update_relationship_item_overwriting(item, tree_id, s) ==
    LET rel == RowOf(s.db, "relationship", item.id)
        v1 == IF item.src # None
              THEN validate_person_ids_in_tree(<<item.src>>, tree_id, s) ELSE s
        v2 == IF Raised(v1) THEN v1
              ELSE IF item.tgt # None
              THEN validate_person_ids_in_tree(<<item.tgt>>, tree_id, v1) ELSE v1
        r3 == [rel EXCEPT !.src = item.src, !.tgt = item.tgt, !.data = item.data]
    IN IF item.id \notin RowIdsOfTree(s.db, "relationship", tree_id)
       THEN HTTPException(s, 404, [msg |-> "not_found", kind |-> "relationship", id |-> item.id])
       ELSE IF Raised(v2) THEN v2
       ELSE [s EXCEPT !.db.relationships = (@ \ {rel}) \cup {r3},
                      !.resp.updated["relationship"] = @ + 1,
                      !.log = Append(@, [op |-> "update", kind |-> "relationship",
                                         id |-> item.id])]

\* One relationships_update item: each provided reference is validated, then set.
update_relationship_item(item, tree_id, s) ==
    LET rel == RowOf(s.db, "relationship", item.id)
        v1 == IF item.src # None
              THEN validate_person_ids_in_tree(<<item.src>>, tree_id, s) ELSE s
        r1 == IF item.src # None THEN [rel EXCEPT !.src = item.src] ELSE rel
        v2 == IF Raised(v1) THEN v1
              ELSE IF item.tgt # None
              THEN validate_person_ids_in_tree(<<item.tgt>>, tree_id, v1) ELSE v1
        r2 == IF item.tgt # None THEN [r1 EXCEPT !.tgt = item.tgt] ELSE r1
        r3 == IF item.data # NoData THEN [r2 EXCEPT !.data = item.data] ELSE r2
    IN IF item.id \notin RowIdsOfTree(s.db, "relationship", tree_id)
       THEN HTTPException(s, 404, [msg |-> "not_found", kind |-> "relationship", id |-> item.id])
       ELSE IF Raised(v2) THEN v2
       ELSE [s EXCEPT !.db.relationships = (@ \ {rel}) \cup {r3},
                      !.resp.updated["relationship"] = @ + 1,
                      !.log = Append(@, [op |-> "update", kind |-> "relationship",
                                         id |-> item.id])]

\* _update_relationships
RECURSIVE update_relationships(_, _, _)
update_relationships(items, tree_id, s) ==
    IF items = <<>> \/ Raised(s) THEN s
    ELSE update_relationships(Tail(items), tree_id,
                              update_relationship_item(Head(items), tree_id, s))

\* Fault variant of the replacement: the rows are added without the clear.
AppendLinks(s, kind, id, person_ids) ==
    flush(AddLinks(s, kind, id, person_ids))

\* The replacement of an entity's junction rows: person_links.clear(), flush,
\* then one db.add per provided person id; the added rows are flushed by the
\* next query or by the commit.
ReplaceLinks(s, kind, id, person_ids) ==
    flush(AddLinks([s EXCEPT !.db.links = CascadePersonLinks(@, kind, id)],
                   kind, id, person_ids))

\* Fault variant of a linked update item: "if item.person_ids" is not told
\* from "is not None", so an omitted list clears the associations.
update_linked_item_clearing(kind, item, tree_id, s) ==
    LET entity == RowOf(s.db, kind, item.id)
        person_ids == IF item.person_ids = NoList THEN <<>> ELSE item.person_ids
        s1 == IF item.data # NoData
              THEN [s EXCEPT !.db.entities = (@ \ {entity})
                                \cup {[entity EXCEPT !.data = item.data]}]
              ELSE s
        s2 == validate_person_ids_in_tree(person_ids, tree_id, s1)
        s3 == flush(AddLinks([s2 EXCEPT !.db.links = CascadePersonLinks(@, kind, item.id)],
                             kind, item.id, person_ids))
    IN IF item.id \notin RowIdsOfTree(s.db, kind, tree_id)
       THEN HTTPException(s, 404, [msg |-> "not_found", kind |-> kind, id |-> item.id])
       ELSE IF Raised(s2) THEN s2
       ELSE IF Raised(s3) THEN s3
       ELSE [s3 EXCEPT !.resp.updated[kind] = @ + 1,
                       !.log = Append(@, [op |-> "update", kind |-> kind, id |-> item.id])]

\* One update item of a linked kind (the body of the loops of _update_events,
\* _update_classifications and _update_patterns).
update_linked_item(kind, item, tree_id, s) ==
    LET entity == RowOf(s.db, kind, item.id)
        s1 == IF item.data # NoData
              THEN [s EXCEPT !.db.entities = (@ \ {entity})
                                \cup {[entity EXCEPT !.data = item.data]}]
              ELSE s
        s2 == IF item.person_ids # NoList
              THEN validate_person_ids_in_tree(item.person_ids, tree_id, s1)
              ELSE s1
        s3 == IF item.person_ids # NoList
              THEN ReplaceLinks(s2, kind, item.id, item.person_ids)
              ELSE s2
    IN IF item.id \notin RowIdsOfTree(s.db, kind, tree_id)
       THEN HTTPException(s, 404, [msg |-> "not_found", kind |-> kind, id |-> item.id])
       ELSE IF Raised(s2) THEN s2
       ELSE IF Raised(s3) THEN s3
       ELSE [s3 EXCEPT !.resp.updated[kind] = @ + 1,
                       !.log = Append(@, [op |-> "update", kind |-> kind, id |-> item.id])]

RECURSIVE update_linked(_, _, _, _)
update_linked(kind, items, tree_id, s) ==
    IF items = <<>> \/ Raised(s) THEN s
    ELSE update_linked(kind, Tail(items), tree_id,
                       update_linked_item(kind, Head(items), tree_id, s))

\* _update_events
update_events(body, tree_id, s) == update_linked("event", body.update["event"], tree_id, s)

\* _update_classifications
update_classifications(body, tree_id, s) ==
    update_linked("classification", body.update["classification"], tree_id, s)

\* _update_patterns
update_patterns(body, tree_id, s) ==
    update_linked("pattern", body.update["pattern"], tree_id, s)

\* _phase_updates
phase_updates(body, tree_id, s) ==
    LET s1 == update_persons(body.update["person"], tree_id, s)
        s2 == update_relationships(body.update["relationship"], tree_id, s1)
        s3 == update_events(body, tree_id, s2)
        s4 == update_classifications(body, tree_id, s3)
    IN update_patterns(body, tree_id, s4)

\* Fault variant of get_owned_tree: the owner of the tree is not compared.
get_any_tree(d, user, tree_id) ==
    \E t \in d.trees : t.id = tree_id

\* get_owned_tree (api/app/dependencies.py): the tree, if the caller owns it.
get_owned_tree(d, user, tree_id) ==
    \E t \in d.trees : t.id = tree_id /\ t.user = user

\* The body of an error response: the status and the detail alone.
ErrorResponse(status_code, detail) ==
    [SyncResponse EXCEPT !.status = status_code, !.detail = detail]

\* db.commit(): the session's view becomes the committed contents.
commit(d, s) == s.db

\* Fault variant of the except branch: the session is committed, not rolled back.
commit_instead(d, s) == s.db

\* db.rollback(): the committed contents stay as they were.
rollback(d, s) == d

\* Fault variant of the order of the phases: the updates are applied first.
run_phases_updating_first(body, tree_id, s) ==
    phase_creates(body, tree_id, phase_deletes(body, tree_id, phase_updates(body, tree_id, s)))

\* The three phases of sync_tree, in order.
run_phases(body, tree_id, s) ==
    phase_updates(body, tree_id, phase_creates(body, tree_id, phase_deletes(body, tree_id, s)))

\* The end of sync_tree: db.commit() after the phases, db.rollback() and the
\* error response in the except branches.
commit_or_rollback(d, s) ==
    IF Raised(s)
    THEN [db |-> rollback(d, s),
          resp |-> ErrorResponse(s.resp.status, s.resp.detail), log |-> s.log]
    ELSE [db |-> commit(d, s), resp |-> s.resp, log |-> s.log]

\* sync_tree: the outcome of a sync call, [db, resp, log].
sync_tree(d, user, tree_id, body) ==
    IF ~get_owned_tree(d, user, tree_id)
    THEN [db |-> d, resp |-> ErrorResponse(404, [msg |-> "tree_not_found"]), log |-> <<>>]
    ELSE commit_or_rollback(d, run_phases(body, tree_id, SessionOf(d)))


(***************************************************************************)
(* The single-record handlers.  Each returns [db, resp]: the committed     *)
(* contents after the call and the response.                               *)
(***************************************************************************)
Reply(d, status_code, detail) ==
    [db |-> d, resp |-> ErrorResponse(status_code, detail)]

TreeNotFound(d) == Reply(d, 404, [msg |-> "tree_not_found"])

\* create_tree (api/app/routers/trees.py)
create_tree(d, user) ==
    LET id == Min(TreeIds \ {t.id : t \in d.trees})
    IN Reply([d EXCEPT !.trees = @ \cup {[id |-> id, user |-> user]}],
             201, [msg |-> "created", id |-> id])

\* create_person (api/app/routers/persons.py)
create_person(d, user, tree_id, data) ==
    LET id == uuid4(d, "person", {})
        person == [id |-> id, tree |-> tree_id, data |-> data]
    IN IF ~get_owned_tree(d, user, tree_id) THEN TreeNotFound(d)
       ELSE Reply([d EXCEPT !.persons = @ \cup {person}],
                  201, [msg |-> "created", id |-> id])

\* delete_person (api/app/routers/persons.py)
delete_person(d, user, tree_id, person_id) ==
    IF ~get_owned_tree(d, user, tree_id) THEN TreeNotFound(d)
    ELSE IF person_id \notin RowIdsOfTree(d, "person", tree_id)
    THEN Reply(d, 404, [msg |-> "not_found", kind |-> "person", id |-> person_id])
    ELSE Reply(DeleteRow(d, "person", person_id), 204, [msg |-> "no_content"])

\* _validate_person_in_tree (api/app/routers/relationships.py)
validate_person_in_tree(d, person_id, tree_id) ==
    person_id \in PersonsOfTree(d, tree_id)

\* create_relationship (api/app/routers/relationships.py)
create_relationship(d, user, tree_id, body) ==
    LET id == uuid4(d, "relationship", {})
        rel == [id |-> id, tree |-> tree_id, src |-> body.src, tgt |-> body.tgt,
                data |-> body.data]
    IN IF ~get_owned_tree(d, user, tree_id) THEN TreeNotFound(d)
       ELSE IF ~validate_person_in_tree(d, body.src, tree_id)
       THEN Reply(d, 422, [msg |-> "not_in_tree", field |-> "source_person_id"])
       ELSE IF ~validate_person_in_tree(d, body.tgt, tree_id)
       THEN Reply(d, 422, [msg |-> "not_in_tree", field |-> "target_person_id"])
       ELSE Reply([d EXCEPT !.relationships = @ \cup {rel}],
                  201, [msg |-> "created", id |-> id])

\* update_relationship (api/app/routers/relationships.py)
update_relationship(d, user, tree_id, relationship_id, body) ==
    LET rel == RowOf(d, "relationship", relationship_id)
        r1 == IF body.src # None THEN [rel EXCEPT !.src = body.src] ELSE rel
        r2 == IF body.tgt # None THEN [r1 EXCEPT !.tgt = body.tgt] ELSE r1
        r3 == IF body.data # NoData THEN [r2 EXCEPT !.data = body.data] ELSE r2
    IN IF ~get_owned_tree(d, user, tree_id) THEN TreeNotFound(d)
       ELSE IF relationship_id \notin RowIdsOfTree(d, "relationship", tree_id)
       THEN Reply(d, 404, [msg |-> "not_found", kind |-> "relationship",
                           id |-> relationship_id])
       ELSE IF body.src # None /\ ~validate_person_in_tree(d, body.src, tree_id)
       THEN Reply(d, 422, [msg |-> "not_in_tree", field |-> "source_person_id"])
       ELSE IF body.tgt # None /\ ~validate_person_in_tree(d, body.tgt, tree_id)
       THEN Reply(d, 422, [msg |-> "not_in_tree", field |-> "target_person_id"])
       ELSE Reply([d EXCEPT !.relationships = (@ \ {rel}) \cup {r3}],
                  200, [msg |-> "ok"])

\* delete_relationship (api/app/routers/relationships.py)
delete_relationship(d, user, tree_id, relationship_id) ==
    IF ~get_owned_tree(d, user, tree_id) THEN TreeNotFound(d)
    ELSE IF relationship_id \notin RowIdsOfTree(d, "relationship", tree_id)
    THEN Reply(d, 404, [msg |-> "not_found", kind |-> "relationship",
                        id |-> relationship_id])
    ELSE Reply(DeleteRow(d, "relationship", relationship_id), 204, [msg |-> "no_content"])

\* Fault variant of validate_persons_in_tree: no id is reported missing.
accept_any_persons(person_ids, tree_id, d) == {}

\* Fault variant of validate_persons_in_tree: one missing id alone is reported.
report_one_missing_person(person_ids, tree_id, d) ==
    LET missing == Range(person_ids) \ PersonsOfTree(d, tree_id)
    IN IF person_ids = <<>> \/ missing = {} THEN {} ELSE {Min(missing)}

\* validate_persons_in_tree (api/app/routers/crud_helpers.py): the missing ids.
validate_persons_in_tree(person_ids, tree_id, d) ==
    IF person_ids = <<>> THEN {}
    ELSE Range(person_ids) \ (PersonsOfTree(d, tree_id) \cap Range(person_ids))

\* create_entity (api/app/routers/crud_helpers.py)
create_entity(kind, person_ids, encrypted_data, user, tree_id, d) ==
    LET missing == validate_persons_in_tree(person_ids, tree_id, d)
        id == uuid4(d, kind, {})
        entity == [kind |-> kind, id |-> id, tree |-> tree_id, data |-> encrypted_data]
        s == AddLinks(AddRow(SessionOf(d), kind, entity), kind, id, person_ids)
    IN IF ~get_owned_tree(d, user, tree_id) THEN TreeNotFound(d)
       ELSE IF missing # {}
       THEN Reply(d, 422, [msg |-> "person_ids_not_found", missing |-> missing])
       ELSE IF s.dup THEN Reply(d, 500, [msg |-> "internal_server_error"])
       ELSE Reply(commit(d, s), 201, [msg |-> "created", id |-> id])

\* update_entity (api/app/routers/crud_helpers.py)
update_entity(kind, entity_id, user, tree_id, encrypted_data, person_ids, d) ==
    LET entity == RowOf(d, kind, entity_id)
        s == SessionOf(d)
        s1 == IF encrypted_data # NoData
              THEN [s EXCEPT !.db.entities = (@ \ {entity})
                                \cup {[entity EXCEPT !.data = encrypted_data]}]
              ELSE s
        missing == IF person_ids # NoList
                   THEN validate_persons_in_tree(person_ids, tree_id, d) ELSE {}
        s2 == IF person_ids # NoList
              THEN AddLinks([s1 EXCEPT !.db.links = CascadePersonLinks(@, kind, entity_id)],
                            kind, entity_id, person_ids)
              ELSE s1
    IN IF ~get_owned_tree(d, user, tree_id) THEN TreeNotFound(d)
       ELSE IF entity_id \notin RowIdsOfTree(d, kind, tree_id)
       THEN Reply(d, 404, [msg |-> "not_found", kind |-> kind, id |-> entity_id])
       ELSE IF missing # {}
       THEN Reply(d, 422, [msg |-> "person_ids_not_found", missing |-> missing])
       ELSE IF s2.dup THEN Reply(d, 500, [msg |-> "internal_server_error"])
       ELSE Reply(commit(d, s2), 200, [msg |-> "ok"])

\* delete_entity (api/app/routers/crud_helpers.py)
delete_entity(kind, entity_id, user, tree_id, d) ==
    IF ~get_owned_tree(d, user, tree_id) THEN TreeNotFound(d)
    ELSE IF entity_id \notin RowIdsOfTree(d, kind, tree_id)
    THEN Reply(d, 404, [msg |-> "not_found", kind |-> kind, id |-> entity_id])
    ELSE Reply(DeleteRow(d, kind, entity_id), 204, [msg |-> "no_content"])

\* update_person (api/app/routers/persons.py)
update_person(d, user, tree_id, person_id, data) ==
    LET person == RowOf(d, "person", person_id)
    IN IF ~get_owned_tree(d, user, tree_id) THEN TreeNotFound(d)
       ELSE IF person_id \notin RowIdsOfTree(d, "person", tree_id)
       THEN Reply(d, 404, [msg |-> "not_found", kind |-> "person", id |-> person_id])
       ELSE Reply([d EXCEPT !.persons = (@ \ {person})
                                          \cup {[person EXCEPT !.data = data]}],
                  200, [msg |-> "ok"])

\* get_tree (api/app/routers/trees.py)
get_tree(d, user, tree_id) ==
    IF ~get_owned_tree(d, user, tree_id) THEN TreeNotFound(d)
    ELSE Reply(d, 200, [msg |-> "ok", id |-> tree_id])

\* Tree.persons, Tree.relationships, Tree.events (cascade="all, delete-orphan")
\* and the tree_id foreign keys (ondelete CASCADE): the rows of a tree go
\* with it, and with each person and linked entity its junction rows.
CascadeTree(d, tree_id) ==
    LET gone == {e \in d.entities : e.tree = tree_id}
    IN [d EXCEPT
          !.persons = {p \in @ : p.tree # tree_id},
          !.relationships = {r \in @ : r.tree # tree_id},
          !.entities = @ \ gone,
          !.links = {l \in @ :
                        /\ l.pid \notin PersonsOfTree(d, tree_id)
                        /\ \A e \in gone : ~(e.kind = l.kind /\ e.id = l.eid)}]

\* Fault variant of delete_tree: the row of the tree alone is deleted.
delete_tree_row_only(d, user, tree_id) ==
    IF ~get_owned_tree(d, user, tree_id) THEN TreeNotFound(d)
    ELSE Reply([d EXCEPT !.trees = {t \in @ : t.id # tree_id}],
               204, [msg |-> "no_content"])

\* delete_tree (api/app/routers/trees.py)
delete_tree(d, user, tree_id) ==
    IF ~get_owned_tree(d, user, tree_id) THEN TreeNotFound(d)
    ELSE Reply([CascadeTree(d, tree_id) EXCEPT !.trees = {t \in @ : t.id # tree_id}],
               204, [msg |-> "no_content"])


(***************************************************************************)
(* The inputs of the requests.                                             *)
(***************************************************************************)
MaxCalls == 4
MaxSyncs == 1
MaxItems == 2

\* The items of the create, update and delete lists.
PersonCreate(id) == [id |-> id, data |-> NewBlob]
PersonUpdate(id) == [id |-> id, data |-> UpdatedBlob]
RelationshipCreate(id, src, tgt) ==
    [id |-> id, src |-> src, tgt |-> tgt, data |-> NewBlob]
RelationshipUpdate(id, src, tgt, data) ==
    [id |-> id, src |-> src, tgt |-> tgt, data |-> data]
LinkedCreate(id, person_ids) == [id |-> id, person_ids |-> person_ids, data |-> NewBlob]
LinkedUpdate(id, person_ids, data) == [id |-> id, person_ids |-> person_ids, data |-> data]
Delete(id) == [id |-> id]

PersonCreateItems == {PersonCreate(i) : i \in {None, 1, 2}}
PersonUpdateItems == {PersonUpdate(i) : i \in {1, 2}}
RelationshipCreateItems ==
    {RelationshipCreate(None, 1, 1), RelationshipCreate(1, 1, 1),
     RelationshipCreate(None, 1, 2), RelationshipCreate(1, 1, 2),
     RelationshipCreate(None, 3, 1)}
RelationshipUpdateItems ==
    {RelationshipUpdate(1, 2, None, NoData), RelationshipUpdate(1, None, 3, NoData),
     RelationshipUpdate(1, None, None, UpdatedBlob), RelationshipUpdate(1, 2, 2, UpdatedBlob),
     RelationshipUpdate(2, None, None, UpdatedBlob)}
LinkedCreateItems(kind) ==
    {LinkedCreate(None, <<1>>), LinkedCreate(1, <<1>>), LinkedCreate(None, <<3>>)}
    \cup IF kind = "event"
         THEN {LinkedCreate(None, <<>>), LinkedCreate(None, <<1, 2>>),
               LinkedCreate(None, <<1, 1>>)}
         ELSE {}
LinkedUpdateItems(kind) ==
    {LinkedUpdate(1, NoList, UpdatedBlob), LinkedUpdate(1, <<2>>, NoData),
     LinkedUpdate(1, <<3>>, UpdatedBlob), LinkedUpdate(2, <<>>, NoData)}
    \cup IF kind = "event"
         THEN {LinkedUpdate(1, <<>>, NoData), LinkedUpdate(1, <<1, 2>>, UpdatedBlob),
               LinkedUpdate(1, <<2, 2>>, NoData)}
         ELSE {}
DeleteItems(kind) ==
    {Delete(i) : i \in IF kind \in {"classification", "pattern"} THEN {1} ELSE {1, 2}}

CreateItems(kind) ==
    IF kind = "person" THEN PersonCreateItems
    ELSE IF kind = "relationship" THEN RelationshipCreateItems
    ELSE LinkedCreateItems(kind)

UpdateItems(kind) ==
    IF kind = "person" THEN PersonUpdateItems
    ELSE IF kind = "relationship" THEN RelationshipUpdateItems
    ELSE LinkedUpdateItems(kind)

EmptyBatch ==
    [create |-> [k \in Kinds |-> <<>>],
     update |-> [k \in Kinds |-> <<>>],
     delete |-> [k \in Kinds |-> <<>>]]

\* The batches of at most n items.
RECURSIVE BatchesOf(_)
BatchesOf(n) ==
    IF n = 0 THEN {EmptyBatch}
    ELSE LET smaller == BatchesOf(n - 1)
         IN smaller
            \cup UNION {{[b EXCEPT !.create[k] = Append(@, i)] :
                           b \in smaller, i \in CreateItems(k)} : k \in Kinds}
            \cup UNION {{[b EXCEPT !.update[k] = Append(@, i)] :
                           b \in smaller, i \in UpdateItems(k)} : k \in Kinds}
            \cup UNION {{[b EXCEPT !.delete[k] = Append(@, i)] :
                           b \in smaller, i \in DeleteItems(k)} : k \in Kinds}

\* Batches that delete a person and create it again under the same id,
\* together with a row that refers to it or an update of it.
ReplacingBatches ==
    {[EmptyBatch EXCEPT !.delete["person"] = <<Delete(1)>>,
                        !.create["person"] = <<PersonCreate(1)>>,
                        !.create["relationship"] = <<RelationshipCreate(None, 1, 1)>>],
     [EmptyBatch EXCEPT !.delete["person"] = <<Delete(1)>>,
                        !.create["person"] = <<PersonCreate(1)>>,
                        !.create["event"] = <<LinkedCreate(None, <<1>>)>>],
     [EmptyBatch EXCEPT !.delete["person"] = <<Delete(1)>>,
                        !.create["person"] = <<PersonCreate(1)>>,
                        !.update["person"] = <<PersonUpdate(1)>>]}

Batches == BatchesOf(MaxItems) \cup ReplacingBatches

\* Whether the id universe holds a new id for every create item without one.
CanGenerate(d, body) ==
    \A k \in Kinds :
        Cardinality({i \in 1..Len(body.create[k]) : body.create[k][i].id = None})
            <= Cardinality(IdsOf(k) \ (TableIds(d, k) \cup NamedIds(body, k)))

\* The inputs of the single-record requests.
SinglePersonIds == {1, 2}
SingleRowIds == {1}
SingleRelationshipCreates ==
    {RelationshipCreate(None, 1, 1), RelationshipCreate(None, 1, 2),
     RelationshipCreate(None, 2, 1)}
SingleRelationshipUpdates ==
    {RelationshipUpdate(1, 2, None, NoData), RelationshipUpdate(1, None, 2, UpdatedBlob),
     RelationshipUpdate(1, None, None, UpdatedBlob)}
SingleCreateLists == {<<>>, <<1>>, <<2>>}
SingleLinkedUpdates ==
    {LinkedUpdate(1, NoList, UpdatedBlob), LinkedUpdate(1, <<>>, NoData),
     LinkedUpdate(1, <<2>>, NoData), LinkedUpdate(1, <<1, 2>>, UpdatedBlob)}

\* Settings (api/app/config.py) with its defaults; ENABLE_WAITLIST and
\* MAX_ACTIVE_USERS are the settings api/app/capacity.py reads.
Settings ==
    [REQUIRE_EMAIL_VERIFICATION |-> FALSE, ENABLE_WAITLIST |-> FALSE,
     MAX_ACTIVE_USERS |-> 0]

NoReq == [op |-> "none"]
NoResp == [status |-> 0]

Idle == req = NoReq

(***************************************************************************)
(* The state machine: a request is handled as a whole, then the request    *)
(* ends and the next one can arrive.  Every request is made by the owner   *)
(* of the tree it names.                                                   *)
(***************************************************************************)
Init ==
    /\ db = EmptyDb
    /\ pre = EmptyDb
    /\ req = NoReq
    /\ resp = NoResp
    /\ log = <<>>
    /\ calls = 0
    /\ syncs = 0
    /\ now = 1
    /\ settings = Settings
    /\ drawn = 0
    /\ txs = <<>>

Handled(r, out) ==
    /\ req' = r
    /\ db' = out.db
    /\ resp' = out.resp
    /\ pre' = db
    /\ calls' = calls + 1
    /\ UNCHANGED host

\* A single-record request: it leaves no log of row operations.
Single(r, out) ==
    /\ Handled(r, out)
    /\ log' = <<>>
    /\ UNCHANGED syncs

Ready == Idle /\ calls < MaxCalls

CreateTree ==
    /\ Ready
    /\ \E u \in Users :
        /\ {t.id : t \in db.trees} # TreeIds
        /\ Single([op |-> "create_tree", user |-> u], create_tree(db, u))

CreatePerson ==
    /\ Ready
    /\ \E t \in db.trees :
        /\ TableIds(db, "person") # PersonIds
        /\ Single([op |-> "create_person", user |-> t.user, tree |-> t.id],
                  create_person(db, t.user, t.id, NewBlob))

DeletePerson ==
    /\ Ready
    /\ \E t \in db.trees, id \in SinglePersonIds :
        Single([op |-> "delete_person", user |-> t.user, tree |-> t.id, id |-> id],
               delete_person(db, t.user, t.id, id))

CreateRelationship ==
    /\ Ready
    /\ \E t \in db.trees, body \in SingleRelationshipCreates :
        /\ TableIds(db, "relationship") # RelationshipIds
        /\ Single([op |-> "create_relationship", user |-> t.user, tree |-> t.id,
                   body |-> body],
                  create_relationship(db, t.user, t.id, body))

UpdateRelationship ==
    /\ Ready
    /\ \E t \in db.trees, body \in SingleRelationshipUpdates :
        Single([op |-> "update_relationship", user |-> t.user, tree |-> t.id,
                id |-> body.id, body |-> body],
               update_relationship(db, t.user, t.id, body.id, body))

DeleteRelationship ==
    /\ Ready
    /\ \E t \in db.trees, id \in SingleRowIds :
        Single([op |-> "delete_relationship", user |-> t.user, tree |-> t.id, id |-> id],
               delete_relationship(db, t.user, t.id, id))

CreateEntity ==
    /\ Ready
    /\ \E t \in db.trees, kind \in LinkedKinds, person_ids \in SingleCreateLists :
        /\ TableIds(db, kind) # EntityIds
        /\ Single([op |-> "create_entity", kind |-> kind, user |-> t.user, tree |-> t.id,
                   person_ids |-> person_ids],
                  create_entity(kind, person_ids, NewBlob, t.user, t.id, db))

UpdateEntity ==
    /\ Ready
    /\ \E t \in db.trees, kind \in LinkedKinds, body \in SingleLinkedUpdates :
        Single([op |-> "update_entity", kind |-> kind, user |-> t.user, tree |-> t.id,
                id |-> body.id, body |-> body],
               update_entity(kind, body.id, t.user, t.id, body.data, body.person_ids, db))

DeleteEntity ==
    /\ Ready
    /\ \E t \in db.trees, kind \in LinkedKinds, id \in SingleRowIds :
        Single([op |-> "delete_entity", kind |-> kind, user |-> t.user, tree |-> t.id,
                id |-> id],
               delete_entity(kind, id, t.user, t.id, db))

SyncTree ==
    /\ Ready
    /\ syncs < MaxSyncs
    /\ \E t \in db.trees, body \in Batches :
        /\ CanGenerate(db, body)
        /\ LET out == sync_tree(db, t.user, t.id, body)
           IN /\ Handled([op |-> "sync", user |-> t.user, tree |-> t.id, body |-> body,
                           again |-> FALSE], out)
              /\ log' = out.log
              /\ syncs' = syncs + 1

\* A sync call whose batch the client has sent before.
Resent(r, out) ==
    /\ Handled(r, out)
    /\ log' = out.log
    /\ UNCHANGED syncs

\* The client sends the batch that was just answered 200 once more, as it
\* does when the response did not reach it.
Resubmit ==
    /\ req.op = "sync"
    /\ resp.status = 200
    /\ ~req.again
    /\ calls < MaxCalls
    /\ CanGenerate(db, req.body)
    /\ Resent([req EXCEPT !.again = TRUE], sync_tree(db, req.user, req.tree, req.body))

\* The request is over: its session is closed (get_db, api/app/database.py).
Finish ==
    /\ ~Idle
    /\ req' = NoReq
    /\ resp' = NoResp
    /\ log' = <<>>
    /\ pre' = db
    /\ UNCHANGED <<db, calls, syncs, host>>

Next ==
    \/ CreateTree
    \/ CreatePerson
    \/ DeletePerson
    \/ CreateRelationship
    \/ UpdateRelationship
    \/ DeleteRelationship
    \/ CreateEntity
    \/ UpdateEntity
    \/ DeleteEntity
    \/ SyncTree
    \/ Resubmit
    \/ Finish

Spec == Init /\ [][Next]_vars

(***************************************************************************)
(* Properties.  They are stated over the state in which a request has been *)
(* answered: req is the request, resp the response, pre the committed      *)
(* contents when it arrived and db the committed contents after it.        *)
(***************************************************************************)
Sync == req.op = "sync"

Positions(items) == 1..Len(items)

\* The positions of the update items of the batch, as <<kind, index>>.
UpdatePositions ==
    UNION {{<<k, i>> : i \in Positions(req.body.update[k])} : k \in Kinds}

\* The person ids the items of a list refer to.
RelationshipRefs(items) ==
    UNION {{items[i].src, items[i].tgt} \ {None} : i \in Positions(items)}

ListRefs(items) == UNION {ListIds(items[i].person_ids) : i \in Positions(items)}

CreateRefs ==
    RelationshipRefs(req.body.create["relationship"])
        \cup UNION {ListRefs(req.body.create[k]) : k \in LinkedKinds}

UpdateRefs ==
    RelationshipRefs(req.body.update["relationship"])
        \cup UNION {ListRefs(req.body.update[k]) : k \in LinkedKinds}

\* The persons of the tree as the batch can know them: those in the tree
\* when the call arrives and those persons_create adds under a client id.
KnownPersons ==
    PersonsOfTree(pre, req.tree) \cup ItemIds(req.body.create["person"])

\* The same, without the persons the batch deletes and does not create again.
LivePersons ==
    (PersonsOfTree(pre, req.tree) \ ItemIds(req.body.delete["person"]))
        \cup ItemIds(req.body.create["person"])

NamesForeignPerson == Sync /\ (CreateRefs \cup UpdateRefs) \ KnownPersons # {}

\* The client ids of a create list are pairwise distinct and in use nowhere.
CleanIds(k) ==
    LET items == req.body.create[k]
    IN /\ ItemIds(items) \cap TableIds(pre, k) = {}
       /\ \A i, j \in Positions(items) :
            (i # j /\ items[i].id # None) => items[i].id # items[j].id

\* No person_ids list of the given items names a person twice.
NoRepeats(items) ==
    \A i \in Positions(items) :
        items[i].person_ids = NoList
            \/ Cardinality(Range(items[i].person_ids)) = Len(items[i].person_ids)

NoItems(lists) == \A k \in Kinds : lists[k] = <<>>

\* Some create item carries a client id, or some person_ids list a repeat:
\* the ways an INSERT of the batch can meet a key in use.
CanCollide ==
    \/ \E k \in Kinds : ItemIds(req.body.create[k]) # {}
    \/ \E k \in LinkedKinds : ~NoRepeats(req.body.create[k] \o req.body.update[k])

\* C1: a sync call that fails in any phase (422, 404 or an unexpected error)
\* leaves the committed tables exactly as they were before the call,
\* whatever deletes and creates the batch had issued by then.
C1_FailedSyncRollsBack ==
    (Sync /\ resp.status # 200) => db = pre

\* A sync call that failed with 404 in the update phase after a delete of
\* the same batch had removed a row in its session.
C1_Witness ==
    /\ Sync
    /\ resp.status = 404
    /\ \E i \in Positions(log) : log[i].op = "delete"
    /\ db = pre

\* C2: in every committed state every relationship's source and target and
\* every junction row's person is a person of the tree of that relationship
\* or linked entity.
C2_ReferencesStayInTree ==
    /\ \A r \in db.relationships : {r.src, r.tgt} \subseteq PersonsOfTree(db, r.tree)
    /\ \A l \in db.links :
         \E e \in db.entities :
            /\ e.kind = l.kind
            /\ e.id = l.eid
            /\ l.pid \in PersonsOfTree(db, e.tree)

\* A person that junction rows referred to was deleted, and the rows went
\* with it.
C2_Witness ==
    /\ req.op = "delete_person"
    /\ resp.status = 204
    /\ \E l \in pre.links : l.pid = req.id
    /\ \A l \in db.links : l.pid # req.id

\* C3 as stated: a batch in which a create or an update refers to a person
\* id that is not a person of the tree fails with 422 and persists nothing.
C3_Original ==
    NamesForeignPerson => (resp.status = 422 /\ db = pre)

\* C3, amended: such a batch always fails and persists nothing.  The failure
\* reported is the first one met: 500 if an INSERT of the batch meets a key
\* in use, 404 if an update item's target is not in the tree, else the 422
\* that lists ids the batch refers to.  It is the 422 whenever the foreign
\* reference is in a create item and persons_create inserts cleanly, and
\* whenever the batch holds update items only, all on rows of the tree and
\* none with a repeated person id.
C3_ForeignPersonFailsBatch ==
    NamesForeignPerson =>
        /\ resp.status \in {422, 404, 500}
        /\ db = pre
        /\ resp.status = 422 =>
              /\ resp.detail.missing # {}
              /\ resp.detail.missing \subseteq (CreateRefs \cup UpdateRefs)
        /\ resp.status = 404 =>
              \E u \in UpdatePositions :
                  /\ resp.detail.kind = u[1]
                  /\ resp.detail.id = req.body.update[u[1]][u[2]].id
        /\ resp.status = 500 => CanCollide
        /\ (CreateRefs \ KnownPersons # {} /\ CleanIds("person")) =>
              /\ resp.status = 422
              /\ (CreateRefs \ KnownPersons) \subseteq resp.detail.missing
        /\ ( /\ NoItems(req.body.create)
             /\ NoItems(req.body.delete)
             /\ \A u \in UpdatePositions :
                   req.body.update[u[1]][u[2]].id \in RowIdsOfTree(pre, u[1], req.tree)
             /\ \A k \in LinkedKinds : NoRepeats(req.body.update[k]) ) =>
              resp.status = 422

\* A batch that deleted or created rows in its session and then failed with
\* 422 on a reference to a person that is not of the tree.
C3_Witness ==
    /\ NamesForeignPerson
    /\ resp.status = 422
    /\ log # <<>>
    /\ db = pre

\* The update items whose id names no row of the kind in the tree: none
\* when the call arrives and none that the batch creates under that id.
UnknownUpdates ==
    {u \in UpdatePositions :
        req.body.update[u[1]][u[2]].id \notin
            RowIdsOfTree(pre, u[1], req.tree) \cup ItemIds(req.body.create[u[1]])}

NotFound(u) ==
    [msg |-> "not_found", kind |-> u[1], id |-> req.body.update[u[1]][u[2]].id]

\* The order in which the update phase visits the kinds.
UpdateRank(k) ==
    CASE k = "person" -> 1
      [] k = "relationship" -> 2
      [] k = "event" -> 3
      [] k = "classification" -> 4
      [] k = "pattern" -> 5

\* The update item the update phase visits first.
IsFirstUpdate(u) ==
    \A v \in UpdatePositions :
        UpdateRank(u[1]) < UpdateRank(v[1]) \/ (u[1] = v[1] /\ u[2] <= v[2])

\* C4 as stated: an update item of any kind whose id names no row of that
\* kind in the tree fails the batch with the 404 that names its kind and id,
\* and nothing of the batch is applied.
C4_Original ==
    Sync => \A u \in UnknownUpdates :
                /\ resp.status = 404
                /\ resp.detail = NotFound(u)
                /\ db = pre

\* C4, amended: a batch with such an update item always fails and nothing
\* of it is applied.  The response is the first failure met: a 422 or 500
\* of the create phase or of an earlier update item, else the 404 of the
\* first update item whose target is missing.  A 404 always names the kind
\* and id of an update item of the batch, and when the batch creates
\* nothing and the first update item visited is unknown, it names that one.
C4_UnknownUpdateFailsBatch ==
    (Sync /\ UnknownUpdates # {}) =>
        /\ resp.status \in {404, 422, 500}
        /\ db = pre
        /\ resp.status = 404 => \E u \in UpdatePositions : resp.detail = NotFound(u)
        /\ \A u \in UnknownUpdates :
              (NoItems(req.body.create) /\ IsFirstUpdate(u)) =>
                  (resp.status = 404 /\ resp.detail = NotFound(u))

\* A batch that created a row in its session and then failed with the 404
\* of an update item whose id names no row; the created row is not kept.
C4_Witness ==
    /\ Sync
    /\ UnknownUpdates # {}
    /\ resp.status = 404
    /\ \E u \in UnknownUpdates : resp.detail = NotFound(u)
    /\ \E i \in Positions(log) : log[i].op = "create"
    /\ db = pre

\* C5: deletes never fail a sync call.  A batch of delete items only always
\* succeeds; an id that names no row of the kind in the tree (unknown, of
\* another tree, or already deleted by the list) is skipped, a row of
\* another tree stays as it is, and the deleted count of a kind is the
\* number of rows of the tree its list removed.
C5_DeletesNeverFail ==
    Sync =>
        /\ (NoItems(req.body.create) /\ NoItems(req.body.update)) => resp.status = 200
        /\ resp.status = 200 =>
              \A k \in Kinds :
                  /\ resp.deleted[k] =
                        Cardinality(ItemIds(req.body.delete[k])
                                      \cap RowIdsOfTree(pre, k, req.tree))
                  /\ Cardinality({i \in Positions(log) :
                                    log[i].op = "delete" /\ log[i].kind = k})
                        = resp.deleted[k]
                  /\ \A id \in ItemIds(req.body.delete[k]) :
                        id \in TableIds(pre, k) \ RowIdsOfTree(pre, k, req.tree)
                            => RowOf(db, k, id) = RowOf(pre, k, id)

\* A delete list of two items of which one named a row of the tree and the
\* other was skipped: the call succeeded and counted one.
C5_Witness ==
    /\ Sync
    /\ resp.status = 200
    /\ Len(req.body.delete["person"]) = 2
    /\ resp.deleted["person"] = 1
    /\ Cardinality(PersonsOfTree(db, req.tree)) + 1
          = Cardinality(PersonsOfTree(pre, req.tree))

\* C6 as stated: on success the created-id list of every kind is as long as
\* the kind's create list, its i-th element is the id of the row kept from
\* the i-th item (the client's id where the item carries one, else a new
\* id), and a kind without create items returns the empty list and zero
\* counts.
C6_Original ==
    (Sync /\ resp.status = 200) =>
        \A k \in Kinds :
            /\ Len(resp.created[k]) = Len(req.body.create[k])
            /\ \A i \in Positions(req.body.create[k]) :
                  /\ resp.created[k][i] \in RowIdsOfTree(db, k, req.tree)
                  /\ req.body.create[k][i].id # None =>
                        resp.created[k][i] = req.body.create[k][i].id
            /\ req.body.create[k] = <<>> =>
                  (resp.created[k] = <<>> /\ resp.updated[k] = 0 /\ resp.deleted[k] = 0)

\* C6, amended: on success the created-id list of every kind is as long as
\* the kind's create list, and its i-th element is the id of the row kept
\* from the i-th item: the client's id where the item carries one, else a
\* new id that no other item of the batch has.  A kind without create items
\* returns the empty list; its updated and deleted counts are those of its
\* update and delete lists, zero when the batch holds no item of the kind.
C6_CreatedIdsFollowCreateList ==
    (Sync /\ resp.status = 200) =>
        \A k \in Kinds :
            LET items == req.body.create[k]
                created == resp.created[k]
            IN /\ Len(created) = Len(items)
               /\ \A i \in Positions(items) :
                    /\ items[i].id # None => created[i] = items[i].id
                    /\ items[i].id = None =>
                          /\ created[i] \in IdsOf(k)
                          /\ created[i] \notin NamedIds(req.body, k)
                    /\ \A j \in Positions(items) : i # j => created[i] # created[j]
                    /\ created[i] \in RowIdsOfTree(db, k, req.tree)
                    /\ created[i] \notin ItemIds(req.body.update[k]) =>
                          /\ RowOf(db, k, created[i]).data = items[i].data
                          /\ k \in LinkedKinds =>
                                PersonLinks(db, k, created[i]) = Range(items[i].person_ids)
                          /\ k = "relationship" =>
                                /\ RowOf(db, k, created[i]).src = items[i].src
                                /\ RowOf(db, k, created[i]).tgt = items[i].tgt
               /\ items = <<>> => created = <<>>
               /\ (items = <<>> /\ req.body.update[k] = <<>> /\ req.body.delete[k] = <<>>) =>
                    (resp.updated[k] = 0 /\ resp.deleted[k] = 0)

\* A persons_create of two items, the first without an id and the second
\* with the client's: both rows are kept and listed in that order.
C6_Witness ==
    /\ Sync
    /\ resp.status = 200
    /\ Len(req.body.create["person"]) = 2
    /\ req.body.create["person"][1].id = None
    /\ req.body.create["person"][2].id # None
    /\ resp.created["person"][2] = req.body.create["person"][2].id
    /\ Range(resp.created["person"]) \subseteq PersonsOfTree(db, req.tree)

\* The batch creates a relationship or a linked entity.
HasReferringCreates ==
    \E k \in Kinds \ {"person"} : req.body.create[k] # <<>>

LogCount(op) == Cardinality({i \in Positions(log) : log[i].op = op})

CreateCount ==
    Len(req.body.create["person"]) + Len(req.body.create["relationship"])
        + Len(req.body.create["event"]) + Len(req.body.create["classification"])
        + Len(req.body.create["pattern"])

\* The rows kept from the relationship and linked-entity creates refer to
\* exactly the persons their items name (a row the batch also updates is
\* left to the update).
CreatedRowsReferAsAsked ==
    \A k \in Kinds \ {"person"} :
        \A i \in Positions(req.body.create[k]) :
            LET item == req.body.create[k][i]
                id == resp.created[k][i]
            IN id \notin ItemIds(req.body.update[k]) =>
                 /\ id \in RowIdsOfTree(db, k, req.tree)
                 /\ k = "relationship" =>
                       (RowOf(db, k, id).src = item.src /\ RowOf(db, k, id).tgt = item.tgt)
                 /\ k \in LinkedKinds =>
                       PersonLinks(db, k, id) = Range(item.person_ids)

\* C7 as stated, on batches without update items, without a client id in
\* use or repeated and without a repeated person id: a batch whose
\* relationship and linked-entity creates refer only to persons already in
\* the tree or created by persons_create of the batch under a client id
\* succeeds, and the rows kept refer to exactly those persons.
C7_Original ==
    ( /\ Sync
      /\ HasReferringCreates
      /\ CreateRefs \subseteq KnownPersons
      /\ NoItems(req.body.update)
      /\ \A k \in Kinds : CleanIds(k)
      /\ \A k \in LinkedKinds : NoRepeats(req.body.create[k]) ) =>
        (resp.status = 200 /\ CreatedRowsReferAsAsked)

\* C7, amended: the references pass when each of them is a person of the
\* tree that the batch does not delete, or a person persons_create of the
\* batch adds.  If, besides, the client ids of the create lists are distinct
\* and in use nowhere and no person_ids list names a person twice, every
\* create of the batch is executed; the call then succeeds unless an update
\* item fails, and on success the rows kept refer to exactly the persons
\* named.
C7_CreatesSeeBatchPersons ==
    ( /\ Sync
      /\ HasReferringCreates
      /\ CreateRefs \subseteq LivePersons
      /\ \A k \in Kinds : CleanIds(k)
      /\ \A k \in LinkedKinds : NoRepeats(req.body.create[k]) ) =>
        /\ LogCount("create") = CreateCount
        /\ NoItems(req.body.update) => resp.status = 200
        /\ resp.status = 200 => CreatedRowsReferAsAsked

\* A batch created a person under a client id and, with it, a relationship
\* or a linked entity that refers to that person; both were kept.
C7_Witness ==
    /\ Sync
    /\ resp.status = 200
    /\ \E p \in ItemIds(req.body.create["person"]) \cap CreateRefs :
          /\ p \notin PersonsOfTree(pre, req.tree)
          /\ p \in PersonsOfTree(db, req.tree)
          /\ \/ \E r \in db.relationships \ pre.relationships : p \in {r.src, r.tgt}
             \/ \E l \in db.links \ pre.links : l.pid = p

\* The update item at position i of kind k is the last of the batch that
\* sets the person_ids of its entity.
IsLastListFor(k, i) ==
    LET items == req.body.update[k]
    IN /\ items[i].person_ids # NoList
       /\ \A j \in Positions(items) :
            (j > i /\ items[j].id = items[i].id) => items[j].person_ids = NoList

\* C8: after a successful update of a linked entity that provides
\* person_ids, in a sync batch or by the single-record PUT, the persons the
\* entity is associated with are exactly those of the list provided (of the
\* last such item, where a batch updates the entity more than once); with
\* an empty list the entity stays and has no associations.
C8_UpdateReplacesAssociations ==
    /\ (Sync /\ resp.status = 200) =>
          \A k \in LinkedKinds : \A i \in Positions(req.body.update[k]) :
              IsLastListFor(k, i) =>
                  /\ req.body.update[k][i].id \in RowIdsOfTree(db, k, req.tree)
                  /\ PersonLinks(db, k, req.body.update[k][i].id)
                        = Range(req.body.update[k][i].person_ids)
    /\ (req.op = "update_entity" /\ resp.status = 200 /\ req.body.person_ids # NoList) =>
          /\ req.id \in RowIdsOfTree(db, req.kind, req.tree)
          /\ PersonLinks(db, req.kind, req.id) = Range(req.body.person_ids)

\* A sync update gave an entity that had associations a list of other
\* persons: the old rows are gone and the new ones are there.
C8_Witness ==
    /\ Sync
    /\ resp.status = 200
    /\ \E k \in LinkedKinds : \E i \in Positions(req.body.update[k]) :
          LET item == req.body.update[k][i]
          IN /\ item.person_ids \notin {NoList, <<>>}
             /\ PersonLinks(pre, k, item.id) # {}
             /\ PersonLinks(pre, k, item.id) \cap Range(item.person_ids) = {}
             /\ PersonLinks(db, k, item.id) = Range(item.person_ids)

\* What an update that sets nothing has to leave in place: the associations
\* and the blob the entity has when the update phase starts.  An entity the
\* batch creates has those of its create item; any other has those it had
\* when the call arrived, less the rows of the persons the batch deletes.
CreateItemOf(k, id) ==
    req.body.create[k][CHOOSE i \in Positions(req.body.create[k]) :
                           req.body.create[k][i].id = id]

LinksBeforeUpdates(k, id) ==
    IF id \in ItemIds(req.body.create[k])
    THEN Range(CreateItemOf(k, id).person_ids)
    ELSE PersonLinks(pre, k, id) \ ItemIds(req.body.delete["person"])

DataBeforeUpdates(k, id) ==
    IF id \in ItemIds(req.body.create[k])
    THEN CreateItemOf(k, id).data
    ELSE RowOf(pre, k, id).data

\* C9: an update of a linked entity that omits person_ids leaves the
\* entity's junction rows as they were, and one that omits encrypted_data
\* leaves the blob as it was, in a sync batch and by the single-record PUT
\* alike; an empty person_ids list is not an omitted one: it clears the
\* associations.
C9_OmittedFieldsStay ==
    /\ (Sync /\ resp.status = 200) =>
          \A k \in LinkedKinds : \A id \in ItemIds(req.body.update[k]) :
              LET items == req.body.update[k]
                  mine == {i \in Positions(items) : items[i].id = id}
              IN /\ (\A i \in mine : items[i].person_ids = NoList) =>
                       PersonLinks(db, k, id) = LinksBeforeUpdates(k, id)
                 /\ (\A i \in mine : items[i].data = NoData) =>
                       RowOf(db, k, id).data = DataBeforeUpdates(k, id)
                 /\ (\E i \in mine : IsLastListFor(k, i) /\ items[i].person_ids = <<>>) =>
                       PersonLinks(db, k, id) = {}
    /\ (req.op = "update_entity" /\ resp.status = 200) =>
          /\ req.body.person_ids = NoList =>
                PersonLinks(db, req.kind, req.id) = PersonLinks(pre, req.kind, req.id)
          /\ req.body.data = NoData =>
                RowOf(db, req.kind, req.id).data = RowOf(pre, req.kind, req.id).data
          /\ req.body.person_ids = <<>> => PersonLinks(db, req.kind, req.id) = {}

\* A sync update set the blob of an entity that has associations and
\* omitted person_ids: the blob is the new one, the associations are kept.
C9_Witness ==
    /\ Sync
    /\ resp.status = 200
    /\ \E k \in LinkedKinds : \E i \in Positions(req.body.update[k]) :
          LET item == req.body.update[k][i]
          IN /\ item.person_ids = NoList
             /\ item.data # NoData
             /\ PersonLinks(pre, k, item.id) # {}
             /\ PersonLinks(db, k, item.id) = PersonLinks(pre, k, item.id)
             /\ RowOf(pre, k, item.id).data # item.data
             /\ RowOf(db, k, item.id).data = item.data

\* The place of a row operation in the order of a sync call.
Rank(entry) ==
    CASE entry.op = "delete" /\ entry.kind = "relationship" -> 1
      [] entry.op = "delete" /\ entry.kind = "classification" -> 2
      [] entry.op = "delete" /\ entry.kind \in {"event", "pattern"} -> 3
      [] entry.op = "delete" /\ entry.kind = "person" -> 4
      [] entry.op \in {"create", "link"} -> 5
      [] entry.op = "update" -> 6

\* C10: within a sync call every delete is applied before any create and
\* every create before any update, and among the deletes relationships
\* come first, then classifications, then events and patterns, then
\* persons.
C10_PhasesInOrder ==
    \A i, j \in Positions(log) : i < j => Rank(log[i]) <= Rank(log[j])

\* A batch deleted an event and a person of the tree: the event went first.
C10_Witness ==
    /\ Sync
    /\ resp.status = 200
    /\ Len(log) = 2
    /\ log[1].op = "delete" /\ log[1].kind = "event"
    /\ log[2].op = "delete" /\ log[2].kind = "person"

(***************************************************************************)
(* The tree-scoped routes under any caller.  A request names a tree id in  *)
(* its path and is made by any user, owner or not; the store starts empty  *)
(* or holding two users' trees.                                            *)
(***************************************************************************)
MaxScopeCalls == 3

\* A store the handlers reach: u1 owns tree 1, u2 owns tree 2, and each
\* tree holds a person and the rows that refer to it.
SeededDb ==
    [trees |-> {[id |-> 1, user |-> "u1"], [id |-> 2, user |-> "u2"]},
     persons |-> {[id |-> 1, tree |-> 1, data |-> NewBlob],
                  [id |-> 2, tree |-> 2, data |-> NewBlob]},
     relationships |-> {[id |-> 1, tree |-> 1, src |-> 1, tgt |-> 1, data |-> NewBlob]},
     entities |-> {[kind |-> "event", id |-> 1, tree |-> 1, data |-> NewBlob],
                   [kind |-> "turning_point", id |-> 1, tree |-> 1, data |-> NewBlob],
                   [kind |-> "event", id |-> 2, tree |-> 2, data |-> NewBlob]},
     links |-> {[kind |-> "event", eid |-> 1, pid |-> 1],
                [kind |-> "turning_point", eid |-> 1, pid |-> 1],
                [kind |-> "event", eid |-> 2, pid |-> 2]}]

\* The kinds of the single-record linked-entity routes requested here.
ScopeKinds == {"event", "turning_point"}

\* SyncRequest.turning_points_create, _update and _delete.
NoTurningPoints == [create |-> <<>>, update |-> <<>>, delete |-> <<>>]

TurningPointLists ==
    {NoTurningPoints,
     [NoTurningPoints EXCEPT !.create = <<LinkedCreate(None, <<1>>)>>],
     [NoTurningPoints EXCEPT !.create = <<LinkedCreate(None, <<3>>)>>],
     [NoTurningPoints EXCEPT !.update = <<LinkedUpdate(1, <<>>, UpdatedBlob)>>],
     [NoTurningPoints EXCEPT !.delete = <<Delete(1)>>]}

ScopeBatches ==
    {EmptyBatch,
     [EmptyBatch EXCEPT !.create["person"] = <<PersonCreate(3)>>],
     [EmptyBatch EXCEPT !.update["person"] = <<PersonUpdate(1)>>],
     [EmptyBatch EXCEPT !.delete["person"] = <<Delete(1)>>],
     [EmptyBatch EXCEPT !.delete["person"] = <<Delete(1)>>,
                        !.delete["event"] = <<Delete(1)>>],
     [EmptyBatch EXCEPT !.create["event"] = <<LinkedCreate(None, <<3>>)>>]}

\* The sync request body: the lists of the five kinds sync_tree reads and
\* the turning point lists the schema accepts beside them.
SyncBody(body, turning_points) ==
    [create |-> body.create, update |-> body.update, delete |-> body.delete,
     turning_points |-> turning_points]

\* SyncResponse.turning_points_created, _updated and _deleted: sync_tree
\* assigns none of them, so the response carries their defaults.
WithTurningPoints(r) ==
    [status |-> r.status, detail |-> r.detail, created |-> r.created,
     updated |-> r.updated, deleted |-> r.deleted,
     turning_points |-> [created |-> <<>>, updated |-> 0, deleted |-> 0]]

ScopeInit ==
    /\ db \in {EmptyDb, SeededDb}
    /\ pre = db
    /\ req = NoReq
    /\ resp = NoResp
    /\ log = <<>>
    /\ calls = 0
    /\ syncs = 0
    /\ now = 1
    /\ settings = Settings
    /\ drawn = 0
    /\ txs = <<>>

ScopeReady == Idle /\ calls < MaxScopeCalls

\* A sync request: its response carries the turning point fields too.
Synced(r, out) ==
    /\ Handled(r, [db |-> out.db, resp |-> WithTurningPoints(out.resp)])
    /\ log' = out.log
    /\ syncs' = syncs + 1

PostTree ==
    /\ ScopeReady
    /\ \E u \in Users :
        /\ {t.id : t \in db.trees} # TreeIds
        /\ Single([op |-> "create_tree", user |-> u], create_tree(db, u))

GetTree ==
    /\ ScopeReady
    /\ \E u \in Users, tree_id \in TreeIds :
        Single([op |-> "get_tree", user |-> u, tree |-> tree_id],
               get_tree(db, u, tree_id))

DeleteTree ==
    /\ ScopeReady
    /\ \E u \in Users, tree_id \in TreeIds :
        Single([op |-> "delete_tree", user |-> u, tree |-> tree_id],
               delete_tree(db, u, tree_id))

PostPerson ==
    /\ ScopeReady
    /\ \E u \in Users, tree_id \in TreeIds :
        /\ TableIds(db, "person") # PersonIds
        /\ Single([op |-> "create_person", user |-> u, tree |-> tree_id],
                  create_person(db, u, tree_id, NewBlob))

PutPerson ==
    /\ ScopeReady
    /\ \E u \in Users, tree_id \in TreeIds, id \in SinglePersonIds :
        Single([op |-> "update_person", user |-> u, tree |-> tree_id, id |-> id],
               update_person(db, u, tree_id, id, UpdatedBlob))

RemovePerson ==
    /\ ScopeReady
    /\ \E u \in Users, tree_id \in TreeIds, id \in SinglePersonIds :
        Single([op |-> "delete_person", user |-> u, tree |-> tree_id, id |-> id],
               delete_person(db, u, tree_id, id))

PostRelationship ==
    /\ ScopeReady
    /\ \E u \in Users, tree_id \in TreeIds :
        /\ TableIds(db, "relationship") # RelationshipIds
        /\ LET body == RelationshipCreate(None, 1, 1)
           IN Single([op |-> "create_relationship", user |-> u, tree |-> tree_id,
                      body |-> body],
                     create_relationship(db, u, tree_id, body))

PutRelationship ==
    /\ ScopeReady
    /\ \E u \in Users, tree_id \in TreeIds :
        LET body == RelationshipUpdate(1, None, None, UpdatedBlob)
        IN Single([op |-> "update_relationship", user |-> u, tree |-> tree_id,
                   id |-> body.id, body |-> body],
                  update_relationship(db, u, tree_id, body.id, body))

RemoveRelationship ==
    /\ ScopeReady
    /\ \E u \in Users, tree_id \in TreeIds, id \in SingleRowIds :
        Single([op |-> "delete_relationship", user |-> u, tree |-> tree_id, id |-> id],
               delete_relationship(db, u, tree_id, id))

PostEntity ==
    /\ ScopeReady
    /\ \E u \in Users, tree_id \in TreeIds, kind \in ScopeKinds :
        /\ TableIds(db, kind) # EntityIds
        /\ Single([op |-> "create_entity", kind |-> kind, user |-> u, tree |-> tree_id,
                   person_ids |-> <<1>>],
                  create_entity(kind, <<1>>, NewBlob, u, tree_id, db))

PutEntity ==
    /\ ScopeReady
    /\ \E u \in Users, tree_id \in TreeIds, kind \in ScopeKinds :
        LET body == LinkedUpdate(1, <<>>, UpdatedBlob)
        IN Single([op |-> "update_entity", kind |-> kind, user |-> u, tree |-> tree_id,
                   id |-> body.id, body |-> body],
                  update_entity(kind, body.id, u, tree_id, body.data, body.person_ids, db))

RemoveEntity ==
    /\ ScopeReady
    /\ \E u \in Users, tree_id \in TreeIds, kind \in ScopeKinds, id \in SingleRowIds :
        Single([op |-> "delete_entity", kind |-> kind, user |-> u, tree |-> tree_id,
                id |-> id],
               delete_entity(kind, id, u, tree_id, db))

PostSync ==
    /\ ScopeReady
    /\ \E u \in Users, tree_id \in TreeIds, body \in ScopeBatches,
          turning_points \in TurningPointLists :
        /\ CanGenerate(db, body)
        /\ Synced([op |-> "sync", user |-> u, tree |-> tree_id,
                   body |-> SyncBody(body, turning_points)],
                  sync_tree(db, u, tree_id, SyncBody(body, turning_points)))

ScopeNext ==
    \/ PostTree
    \/ GetTree
    \/ DeleteTree
    \/ PostPerson
    \/ PutPerson
    \/ RemovePerson
    \/ PostRelationship
    \/ PutRelationship
    \/ RemoveRelationship
    \/ PostEntity
    \/ PutEntity
    \/ RemoveEntity
    \/ PostSync
    \/ Finish

ScopeSpec == ScopeInit /\ [][ScopeNext]_vars

(***************************************************************************)
(* C11: the ownership guard of the tree-scoped routes.                     *)
(***************************************************************************)
\* The request in hand names a tree in its path.
TreeScoped == ~Idle /\ req.op # "create_tree"

\* The tree the request names is missing or belongs to another user.
NotOwner ==
    /\ TreeScoped
    /\ \A t \in pre.trees : t.id = req.tree => t.user # req.user

\* C11: every tree-scoped request made by a user who does not own the tree
\* it names, because the tree is missing or belongs to another user, is
\* answered 404 "Tree not found"; no row operation is issued for it and the
\* store stays as it was.
C11_NonOwnerGets404 ==
    NotOwner =>
        /\ resp.status = 404
        /\ resp.detail = [msg |-> "tree_not_found"]
        /\ log = <<>>
        /\ db = pre

\* A sync that asks to delete a person of another user's tree is refused.
C11_Witness ==
    /\ NotOwner
    /\ req.op = "sync"
    /\ \E t \in pre.trees : t.id = req.tree /\ t.user # req.user
    /\ req.body.delete["person"] # <<>>
    /\ ItemIds(req.body.delete["person"]) \subseteq PersonsOfTree(pre, req.tree)
    /\ resp.status = 404
    /\ db = pre

(***************************************************************************)
(* C12: the referential validator of the single-record routes.             *)
(***************************************************************************)
\* The request in hand reached validate_persons_in_tree: a linked entity is
\* created, or a linked entity of the tree is updated with a person_ids list.
Validates ==
    \/ req.op = "create_entity"
    \/ /\ req.op = "update_entity"
       /\ req.id \in RowIdsOfTree(pre, req.kind, req.tree)
       /\ req.body.person_ids # NoList

\* The person ids the request hands to the validator.
ValidatedIds ==
    IF req.op = "create_entity" THEN req.person_ids ELSE req.body.person_ids

\* The ids among them that are no person of the tree.
MissingIds == Range(ValidatedIds) \ PersonsOfTree(pre, req.tree)

\* C12: the validator passes exactly when every id it is given is a person
\* of the tree, so an empty list passes; otherwise the request is answered
\* 422 with every missing id in the detail.  The validator changes no row:
\* the persons stay as they were, and on 422 the whole store does.
C12_ValidatorReportsEveryMissingId ==
    Validates =>
        /\ resp.status = 422 <=> MissingIds # {}
        /\ ValidatedIds = <<>> => resp.status # 422
        /\ resp.status = 422 =>
              /\ resp.detail = [msg |-> "person_ids_not_found", missing |-> MissingIds]
              /\ db = pre
        /\ db.persons = pre.persons

\* An update names a person of the tree and a person that is not: it is
\* refused and the detail names the second alone.
C12_Witness ==
    /\ Validates
    /\ req.op = "update_entity"
    /\ Len(ValidatedIds) = 2
    /\ Range(ValidatedIds) \cap PersonsOfTree(pre, req.tree) # {}
    /\ MissingIds # {}
    /\ resp.status = 422
    /\ resp.detail.missing = MissingIds

(***************************************************************************)
(* C13: what the deletion of a person takes with it.                       *)
(***************************************************************************)
\* The persons the request in hand deleted: the person of a single DELETE
\* answered 204, the persons of the tree named in persons_delete of a sync
\* answered 200.  A sync can give the id of a person it deleted to a person
\* it creates; that id is then a person again and is left out.
DeletedPersons ==
    IF req.op = "delete_person" /\ resp.status = 204 THEN {req.id}
    ELSE IF Sync /\ resp.status = 200
    THEN (ItemIds(req.body.delete["person"]) \cap PersonsOfTree(pre, req.tree))
            \ TableIds(db, "person")
    ELSE {}

\* The linked entity of a junction row was asked to be deleted by the
\* request itself.
DeletedWithRequest(l) ==
    /\ Sync
    /\ l.kind \in DOMAIN req.body.delete
    /\ l.eid \in ItemIds(req.body.delete[l.kind])

\* C13: once a person is deleted, by the delete phase of a sync or by a
\* single DELETE, no relationship has it as source or target and no junction
\* row refers to it, while every linked entity that was associated with it
\* still exists.
C13_PersonDeleteCascades ==
    \A pid \in DeletedPersons :
        /\ \A r \in db.relationships : r.src # pid /\ r.tgt # pid
        /\ \A l \in db.links : l.pid # pid
        /\ \A l \in pre.links :
              (l.pid = pid /\ ~DeletedWithRequest(l)) =>
                  \E e \in db.entities : e.kind = l.kind /\ e.id = l.eid

\* A sync deleted a person that a relationship and a junction row referred
\* to; the rows are gone and the linked entity is still there.
C13_Witness ==
    /\ Sync
    /\ \E pid \in DeletedPersons :
          /\ \E r \in pre.relationships : r.src = pid \/ r.tgt = pid
          /\ \E l \in pre.links :
                /\ l.pid = pid
                /\ \E e \in db.entities : e.kind = l.kind /\ e.id = l.eid
          /\ \A r \in db.relationships : r.src # pid /\ r.tgt # pid
          /\ \A l \in db.links : l.pid # pid

(***************************************************************************)
(* C14: what the deletion of a tree takes with it.                         *)
(***************************************************************************)
\* The request in hand deleted the tree it names.
TreeDeleted == ~Idle /\ req.op = "delete_tree" /\ resp.status = 204

\* The rows of a store that belong to the given trees; a junction row
\* belongs to the tree of its linked entity.
RowsOfTrees(d, ids) ==
    [trees |-> {t \in d.trees : t.id \in ids},
     persons |-> {p \in d.persons : p.tree \in ids},
     relationships |-> {r \in d.relationships : r.tree \in ids},
     entities |-> {e \in d.entities : e.tree \in ids},
     links |-> {l \in d.links :
                  \E e \in d.entities :
                     e.kind = l.kind /\ e.id = l.eid /\ e.tree \in ids}]

\* C14: once a tree is deleted no person, relationship, linked entity or
\* junction row of it remains and the tree is answered 404 from then on,
\* while the rows of the other trees are as they were.
C14_TreeDeleteCascades ==
    TreeDeleted =>
        /\ RowsOfTrees(db, {req.tree}) = EmptyDb
        /\ \A l \in db.links : l.pid \notin PersonsOfTree(pre, req.tree)
        /\ \A l \in db.links : \E e \in db.entities : e.kind = l.kind /\ e.id = l.eid
        /\ \A u \in Users : get_tree(db, u, req.tree).resp.status = 404
        /\ RowsOfTrees(db, TreeIds \ {req.tree}) = RowsOfTrees(pre, TreeIds \ {req.tree})

\* A tree holding a person, a relationship, linked entities and junction
\* rows was deleted while another tree held rows of its own.
C14_Witness ==
    /\ TreeDeleted
    /\ RowsOfTrees(pre, {req.tree}).persons # {}
    /\ RowsOfTrees(pre, {req.tree}).relationships # {}
    /\ RowsOfTrees(pre, {req.tree}).entities # {}
    /\ RowsOfTrees(pre, {req.tree}).links # {}
    /\ RowsOfTrees(pre, TreeIds \ {req.tree}).links # {}
    /\ RowsOfTrees(db, {req.tree}) = EmptyDb
    /\ RowsOfTrees(db, TreeIds \ {req.tree}).links # {}

(***************************************************************************)
(* C15: one tree per user.                                                 *)
(***************************************************************************)
\* The trees a user owns in a store.
TreesOf(d, user) == {t \in d.trees : t.user = user}

\* C15 as stated: a create_tree request by a user who already owns a tree
\* is answered 409 and creates no tree, so every user owns at most one tree
\* in every state.  create_tree adds the tree whoever asks, so this fails.
C15_Original ==
    /\ (~Idle /\ req.op = "create_tree" /\ TreesOf(pre, req.user) # {}) =>
          resp.status = 409 /\ db = pre
    /\ \A u \in Users : Cardinality(TreesOf(db, u)) <= 1

(***************************************************************************)
(* C16: turning points in a sync.                                          *)
(***************************************************************************)
SwapKind(kind) ==
    IF kind = "event" THEN "turning_point"
    ELSE IF kind = "turning_point" THEN "event" ELSE kind

\* The store with the events and the turning points in each other's place.
SwapKinds(d) ==
    [d EXCEPT !.entities = {[e EXCEPT !.kind = SwapKind(@)] : e \in @},
              !.links = {[l EXCEPT !.kind = SwapKind(@)] : l \in @}]

\* The sync body with its turning point lists given as the event lists.
AsEvents(body) ==
    [create |-> [body.create EXCEPT !["event"] = body.turning_points.create],
     update |-> [body.update EXCEPT !["event"] = body.turning_points.update],
     delete |-> [body.delete EXCEPT !["event"] = body.turning_points.delete]]

\* The sync in hand names turning points and no events.
SyncsTurningPoints ==
    /\ Sync
    /\ req.body.turning_points # NoTurningPoints
    /\ req.body.create["event"] = <<>>
    /\ req.body.update["event"] = <<>>
    /\ req.body.delete["event"] = <<>>

\* What sync_tree answers when the same items are events.
EventLike == sync_tree(SwapKinds(pre), req.user, req.tree, AsEvents(req.body))

\* C16 as stated: a sync treats its turning point lists exactly as its event
\* lists: the same status (so the same 422 for a person outside the tree),
\* the same rows created, updated and deleted, and the same ids and counts
\* in the response.  sync_tree reads none of the turning point lists, so
\* this fails.
C16_Original ==
    SyncsTurningPoints =>
        /\ resp.status = EventLike.resp.status
        /\ db = SwapKinds(EventLike.db)
        /\ resp.turning_points =
              [created |-> EventLike.resp.created["event"],
               updated |-> EventLike.resp.updated["event"],
               deleted |-> EventLike.resp.deleted["event"]]

(***************************************************************************)
(* C17: the 422 detail for a relationship whose source or target is not a  *)
(* person of the tree.                                                     *)
(***************************************************************************)
\* The source and target ids the relationship items of the sync refer to.
EndpointRefs ==
    RelationshipRefs(req.body.create["relationship"])
        \cup RelationshipRefs(req.body.update["relationship"])

\* The persons of the tree that the batch does not delete: persons of the
\* tree whenever the batch validates a reference.
StayingPersons == PersonsOfTree(pre, req.tree) \ ItemIds(req.body.delete["person"])

\* The sync in hand names a source or target that is no person of the tree
\* and is answered 422.
ForeignEndpointRefused ==
    /\ Sync
    /\ EndpointRefs \ KnownPersons # {}
    /\ resp.status = 422

\* The fields of a relationship that a detail can name.
EndpointFields == {"source_person_id", "target_person_id"}

\* C17 as stated: the 422 detail of such a sync states which field, source
\* or target, is invalid.  The sync validator reports person ids and no
\* field, so this fails.
C17_Original ==
    ForeignEndpointRefused =>
        /\ "field" \in DOMAIN resp.detail
        /\ resp.detail.field \in EndpointFields

\* The field the single-record relationship routes report: the source is
\* validated before the target.
InvalidField(body) ==
    IF body.src # None /\ body.src \notin PersonsOfTree(pre, req.tree)
    THEN "source_person_id" ELSE "target_person_id"

\* C17, amended: the 422 detail of a sync says that person ids were not
\* found in this tree and lists them; it names no field.  The ids listed
\* are ids the batch refers to and none is a person of the tree that stays;
\* they are source or target ids when no other item of the batch refers to
\* a person.  The single-record relationship create and update do name the
\* field: source_person_id if the source is not in the tree, otherwise
\* target_person_id.
C17_SyncDetailListsMissingIds ==
    /\ (Sync /\ resp.status = 422) =>
          /\ DOMAIN resp.detail = {"msg", "missing"}
          /\ resp.detail.msg = "person_ids_not_found"
          /\ resp.detail.missing # {}
          /\ resp.detail.missing \subseteq (CreateRefs \cup UpdateRefs)
          /\ resp.detail.missing \cap StayingPersons = {}
          /\ (CreateRefs \cup UpdateRefs) \subseteq EndpointRefs =>
                resp.detail.missing \subseteq EndpointRefs
    /\ (req.op \in {"create_relationship", "update_relationship"} /\ resp.status = 422) =>
          /\ resp.detail = [msg |-> "not_in_tree", field |-> InvalidField(req.body)]
          /\ \/ /\ resp.detail.field = "source_person_id"
                /\ req.body.src \notin PersonsOfTree(pre, req.tree)
             \/ /\ resp.detail.field = "target_person_id"
                /\ req.body.tgt # None
                /\ req.body.tgt \notin PersonsOfTree(pre, req.tree)
          /\ db = pre

\* A sync creates a relationship from a person of the tree to a person that
\* is not in it: the detail lists the target's id alone and names no field.
C17_Witness ==
    /\ ForeignEndpointRefused
    /\ \E i \in Positions(req.body.create["relationship"]) :
          LET item == req.body.create["relationship"][i]
          IN /\ item.src \in StayingPersons
             /\ item.tgt \notin KnownPersons
             /\ resp.detail.missing = {item.tgt}
    /\ "field" \notin DOMAIN resp.detail

(***************************************************************************)
(* Accounts and the waitlist (api/app/routers/auth.py, waitlist.py and     *)
(* api/app/capacity.py).  Here db holds the users, the waitlist entries    *)
(* and the login events; time is counted in hours.                         *)
(***************************************************************************)
VERIFICATION_TOKEN_EXPIRY_HOURS == 24
INVITE_TOKEN_EXPIRY_DAYS == 7

MaxAccountCalls == 5
MaxDrawn == 3

\* Two addresses that differ in case only, and two passwords.
Emails == {"ann@x.nl", "Ann@x.nl"}
Passwords == {"right", "wrong"}

\* email.strip().lower()
lower(email) == IF email = "Ann@x.nl" THEN "ann@x.nl" ELSE email

\* secrets.token_urlsafe(32) and uuid.uuid4(): the next value never drawn before.
Tokens == 1..MaxDrawn
NoHash == <<>>

\* hashlib.sha256(token.encode()).hexdigest()
sha256(token) == <<"sha256", token>>

\* hash_password and verify_password (api/app/auth.py)
hash_password(password) == <<"bcrypt", password>>
verify_password(password, hashed) == hashed = hash_password(password)

EmptyAccounts == [users |-> {}, waitlist |-> {}, login_events |-> {}]

\* The outcome of an account request: the store, the response and whether
\* a random value was drawn.
Answer(d, status_code, detail, drew) ==
    [db |-> d, resp |-> [status |-> status_code, detail |-> detail], drew |-> drew]

\* User(...) as register builds it.
User(body, verified, hashed, expires_at) ==
    [email |-> body.email, hashed_password |-> hash_password(body.password),
     email_verified |-> verified, email_verification_token |-> hashed,
     email_verification_expires_at |-> expires_at]

\* get_active_user_count (api/app/capacity.py)
get_active_user_count(d) == Cardinality({u \in d.users : u.email_verified})

\* is_registration_open (api/app/capacity.py)
is_registration_open(d, cfg) ==
    IF ~cfg.ENABLE_WAITLIST THEN TRUE
    ELSE IF cfg.MAX_ACTIVE_USERS <= 0 THEN TRUE
    ELSE get_active_user_count(d) < cfg.MAX_ACTIVE_USERS

\* register (api/app/routers/auth.py): body.invite_token is not read.
register(d, cfg, clock, body, token) ==
    IF \E u \in d.users : u.email = body.email
    THEN Answer(d, 409, "email_already_registered", FALSE)
    ELSE IF cfg.REQUIRE_EMAIL_VERIFICATION
    THEN Answer([d EXCEPT !.users = @ \cup
                    {User(body, FALSE, sha256(token),
                          clock + VERIFICATION_TOKEN_EXPIRY_HOURS)}],
                201, "verification_email_sent", TRUE)
    ELSE Answer([d EXCEPT !.users = @ \cup {User(body, TRUE, NoHash, None)}],
                201, "tokens", FALSE)

\* login (api/app/routers/auth.py)
login(d, clock, body) ==
    IF ~\E u \in d.users : u.email = body.email
                             /\ verify_password(body.password, u.hashed_password)
    THEN Answer(d, 401, "invalid_email_or_password", FALSE)
    ELSE IF ~(CHOOSE u \in d.users : u.email = body.email).email_verified
    THEN Answer(d, 403, "email_not_verified", FALSE)
    ELSE Answer([d EXCEPT !.login_events = @ \cup {[user |-> body.email, at |-> clock]}],
                200, "tokens", FALSE)

\* The users the select of verify_email finds.
UnverifiedWithToken(d, token) ==
    {u \in d.users : ~u.email_verified /\ u.email_verification_token = sha256(token)}

\* The user is verified and the stored token and expiry are cleared.
Verified(user) ==
    [user EXCEPT !.email_verified = TRUE, !.email_verification_token = NoHash,
                 !.email_verification_expires_at = None]

\* Fault variant of verify_email: the expiry of the token is not looked at.
verify_email_ignoring_expiry(d, clock, token) ==
    LET found == UnverifiedWithToken(d, token)
        user == CHOOSE u \in found : TRUE
    IN IF found = {}
       THEN Answer(d, 400, "invalid_or_expired_token", FALSE)
       ELSE Answer([d EXCEPT !.users = (@ \ {user}) \cup {Verified(user)}],
                   200, "email_verified", FALSE)

\* verify_email (api/app/routers/auth.py)
verify_email(d, clock, token) ==
    LET found == UnverifiedWithToken(d, token)
        user == CHOOSE u \in found : TRUE
    IN IF found = {} \/ (user.email_verification_expires_at # None
                           /\ user.email_verification_expires_at <= clock)
       THEN Answer(d, 400, "invalid_or_expired_token", FALSE)
       ELSE Answer([d EXCEPT !.users = (@ \ {user}) \cup {Verified(user)}],
                   200, "email_verified", FALSE)

\* resend_verification (api/app/routers/auth.py)
resend_verification(d, cfg, clock, body, token) ==
    LET found == {u \in d.users : u.email = body.email}
        user == CHOOSE u \in found : TRUE
    IN IF ~cfg.REQUIRE_EMAIL_VERIFICATION
       THEN Answer(d, 400, "email_verification_not_enabled", FALSE)
       ELSE IF found = {} \/ user.email_verified
       THEN Answer(d, 200, "verification_email_sent", FALSE)
       ELSE IF /\ user.email_verification_expires_at # None
               /\ user.email_verification_expires_at
                     > clock + (VERIFICATION_TOKEN_EXPIRY_HOURS - 1)
       THEN Answer(d, 429, "resend_too_soon", FALSE)
       ELSE Answer([d EXCEPT !.users = (@ \ {user}) \cup
                       {[user EXCEPT
                           !.email_verification_token = sha256(token),
                           !.email_verification_expires_at =
                               clock + VERIFICATION_TOKEN_EXPIRY_HOURS]}],
                   200, "verification_email_sent", TRUE)

\* join_waitlist (api/app/routers/waitlist.py)
join_waitlist(d, body, id) ==
    LET email == lower(body.email)
    IN IF \E e \in d.waitlist : e.email = email
       THEN Answer(d, 409, "already_on_waitlist", FALSE)
       ELSE IF \E u \in d.users : u.email = email
       THEN Answer(d, 409, "already_registered", FALSE)
       ELSE Answer([d EXCEPT !.waitlist = @ \cup
                       {[id |-> id, email |-> email, status |-> "waiting",
                         invite_token |-> NoHash, invite_expires_at |-> None,
                         approved_at |-> None]}],
                   201, "joined_waitlist", TRUE)

\* The entry is approved: status, invite-token hash, expiry and approved_at.
Approved(entry, clock, token) ==
    [entry EXCEPT !.status = "approved", !.invite_token = sha256(token),
                  !.invite_expires_at = clock + 24 * INVITE_TOKEN_EXPIRY_DAYS,
                  !.approved_at = clock]

\* Fault variant of admin_approve_waitlist: the status is not looked at.
approve_any_status(d, clock, entry_id, token) ==
    LET found == {e \in d.waitlist : e.id = entry_id}
        entry == CHOOSE e \in found : TRUE
    IN IF found = {} THEN Answer(d, 404, "waitlist_entry_not_found", FALSE)
       ELSE Answer([d EXCEPT !.waitlist = (@ \ {entry})
                                \cup {Approved(entry, clock, token)}],
                   200, "approved", TRUE)

\* admin_approve_waitlist (api/app/routers/waitlist.py)
admin_approve_waitlist(d, clock, entry_id, token) ==
    LET found == {e \in d.waitlist : e.id = entry_id}
        entry == CHOOSE e \in found : TRUE
    IN IF found = {} THEN Answer(d, 404, "waitlist_entry_not_found", FALSE)
       ELSE IF entry.status # "waiting"
       THEN Answer(d, 400, "entry_not_in_waiting_status", FALSE)
       ELSE Answer([d EXCEPT !.waitlist = (@ \ {entry})
                                \cup {Approved(entry, clock, token)}],
                   200, "approved", TRUE)

\* admin_delete_waitlist (api/app/routers/waitlist.py)
admin_delete_waitlist(d, entry_id) ==
    IF ~\E e \in d.waitlist : e.id = entry_id
    THEN Answer(d, 404, "waitlist_entry_not_found", FALSE)
    ELSE Answer([d EXCEPT !.waitlist = {e \in @ : e.id # entry_id}],
                204, "no_content", FALSE)

\* The settings the account requests run under.
AccountSettings ==
    {[REQUIRE_EMAIL_VERIFICATION |-> TRUE, ENABLE_WAITLIST |-> TRUE,
      MAX_ACTIVE_USERS |-> 1],
     [REQUIRE_EMAIL_VERIFICATION |-> FALSE, ENABLE_WAITLIST |-> TRUE,
      MAX_ACTIVE_USERS |-> 1],
     [REQUIRE_EMAIL_VERIFICATION |-> TRUE, ENABLE_WAITLIST |-> FALSE,
      MAX_ACTIVE_USERS |-> 0]}

AccountInit ==
    /\ db = EmptyAccounts
    /\ pre = EmptyAccounts
    /\ req = NoReq
    /\ resp = NoResp
    /\ log = <<>>
    /\ calls = 0
    /\ syncs = 0
    /\ now = 1
    /\ settings \in AccountSettings
    /\ drawn = 0
    /\ txs = <<>>

\* An account request handled as a whole.
Answered(r, out) ==
    /\ req' = r
    /\ db' = out.db
    /\ resp' = out.resp
    /\ pre' = db
    /\ calls' = calls + 1
    /\ drawn' = IF out.drew THEN drawn + 1 ELSE drawn
    /\ log' = <<>>
    /\ UNCHANGED <<syncs, now, settings, txs>>

AccountReady == Idle /\ calls < MaxAccountCalls /\ drawn < MaxDrawn

Register ==
    /\ AccountReady
    /\ \E email \in Emails, invite_token \in {None, 1} :
        LET body == [email |-> email, password |-> "right", invite_token |-> invite_token]
        IN Answered([op |-> "register", body |-> body],
                    register(db, settings, now, body, drawn + 1))

Login ==
    /\ AccountReady
    /\ \E email \in Emails, password \in Passwords :
        LET body == [email |-> email, password |-> password]
        IN Answered([op |-> "login", body |-> body], login(db, now, body))

VerifyEmail ==
    /\ AccountReady
    /\ \E token \in Tokens :
        Answered([op |-> "verify_email", token |-> token], verify_email(db, now, token))

ResendVerification ==
    /\ AccountReady
    /\ \E email \in Emails :
        LET body == [email |-> email]
        IN Answered([op |-> "resend_verification", body |-> body],
                    resend_verification(db, settings, now, body, drawn + 1))

JoinWaitlist ==
    /\ AccountReady
    /\ \E email \in Emails :
        LET body == [email |-> email]
        IN Answered([op |-> "join_waitlist", body |-> body],
                    join_waitlist(db, body, drawn + 1))

ApproveWaitlist ==
    /\ AccountReady
    /\ \E entry_id \in Tokens :
        Answered([op |-> "approve_waitlist", id |-> entry_id],
                 admin_approve_waitlist(db, now, entry_id, drawn + 1))

DeleteWaitlist ==
    /\ AccountReady
    /\ \E entry_id \in Tokens :
        Answered([op |-> "delete_waitlist", id |-> entry_id],
                 admin_delete_waitlist(db, entry_id))

\* Time passes between two requests: an hour or a day.  The step counts
\* among the calls, which bounds the clock.
Tick ==
    /\ Idle
    /\ calls < MaxAccountCalls
    /\ \E hours \in {1, VERIFICATION_TOKEN_EXPIRY_HOURS} : now' = now + hours
    /\ calls' = calls + 1
    /\ UNCHANGED <<db, pre, req, resp, log, syncs, settings, drawn, txs>>

AccountNext ==
    \/ Register
    \/ Login
    \/ VerifyEmail
    \/ ResendVerification
    \/ JoinWaitlist
    \/ ApproveWaitlist
    \/ DeleteWaitlist
    \/ Tick
    \/ Finish

AccountSpec == AccountInit /\ [][AccountNext]_vars

(***************************************************************************)
(* C18: email verification.                                                *)
(***************************************************************************)
\* The users of pre that the request in hand turned from unverified to
\* verified.
NewlyVerified ==
    {u \in pre.users :
        /\ ~u.email_verified
        /\ \E v \in db.users : v.email = u.email /\ v.email_verified}

\* The request in hand is a verify call presenting the token.
VerifyWith(token) == req.op = "verify_email" /\ req.token = token

\* What holds of every request: no tokens for an unverified user, and
\* verification only by the stored, unexpired token, which is then cleared.
VerificationStep ==
    /\ req.op = "login" =>
          \A u \in pre.users :
              (u.email = req.body.email /\ ~u.email_verified) =>
                  /\ resp.status \in {401, 403}
                  /\ verify_password(req.body.password, u.hashed_password) =>
                        resp = [status |-> 403, detail |-> "email_not_verified"]
                  /\ db = pre
    /\ \A u \in NewlyVerified :
          /\ req.op = "verify_email"
          /\ resp.status = 200
          /\ u.email_verification_token = sha256(req.token)
          /\ now < u.email_verification_expires_at
          /\ Verified(u) \in db.users
          /\ \A v \in db.users : v.email_verification_token # sha256(req.token)

\* C18: a user whose email is not verified gets no tokens by login (403
\* email_not_verified); email_verified turns from false to true only in a
\* verify call that presents the unexpired token whose hash is stored for
\* the user, and that call clears the stored token; once a token has
\* verified a user, every later verify call with it is answered 400.
C18_VerifyOnceWithStoredToken ==
    /\ []VerificationStep
    /\ \A token \in Tokens :
          []((VerifyWith(token) /\ resp.status = 200) =>
                [](Idle => [](VerifyWith(token) => resp.status = 400)))

\* A user registered and verified with the one token issued so far; the
\* same token is presented again and refused.
C18_Witness ==
    /\ settings.REQUIRE_EMAIL_VERIFICATION
    /\ drawn = 1
    /\ VerifyWith(1)
    /\ \E u \in pre.users : u.email_verified
    /\ resp.status = 400
    /\ db = pre

(***************************************************************************)
(* C19: approval of a waitlist entry.                                      *)
(***************************************************************************)
\* The entry of a store with the given id; ids are never given out twice.
EntriesWith(d, id) == {e \in d.waitlist : e.id = id}

\* The request in hand is an approve call on an entry that exists.
Approves == req.op = "approve_waitlist" /\ EntriesWith(pre, req.id) # {}

\* What holds of every request: an approve call succeeds on a waiting entry
\* and sets its four fields, it is answered 400 on any other entry, and no
\* other request changes the status of an entry.
ApprovalStep ==
    /\ Approves =>
          \A e \in EntriesWith(pre, req.id) :
              /\ e.status = "waiting" =>
                    /\ resp.status = 200
                    /\ db.waitlist = (pre.waitlist \ {e}) \cup
                          {[e EXCEPT !.status = "approved",
                                     !.invite_token = sha256(drawn),
                                     !.invite_expires_at = now + 24 * INVITE_TOKEN_EXPIRY_DAYS,
                                     !.approved_at = now]}
              /\ e.status # "waiting" =>
                    /\ resp = [status |-> 400, detail |-> "entry_not_in_waiting_status"]
                    /\ db = pre
    /\ \A e \in pre.waitlist :
          \A f \in EntriesWith(db, e.id) :
              f.status # e.status =>
                  /\ Approves
                  /\ req.id = e.id
                  /\ e.status = "waiting"
                  /\ f.status = "approved"
    /\ \A e \in db.waitlist :
          /\ e.status = "waiting" <=> e.approved_at = None
          /\ e.status = "waiting" <=> e.invite_token = NoHash

\* C19: an entry is approved only while it is waiting: the approve call
\* then sets the status approved with an invite-token hash, an expiry and
\* approved_at; on an entry in any other status it is answered 400 and the
\* entry stays as it is.  So no entry is approved twice, and once an entry
\* has left the status waiting it never has it again.
C19_ApproveOnlyWhileWaiting ==
    /\ []ApprovalStep
    /\ \A id \in Tokens :
          []((\E e \in EntriesWith(db, id) : e.status # "waiting") =>
                [](\A e \in EntriesWith(db, id) : e.status # "waiting"))
    /\ \A id \in Tokens :
          []((req.op = "approve_waitlist" /\ req.id = id /\ resp.status = 200) =>
                [](Idle => []~(req.op = "approve_waitlist" /\ req.id = id
                                 /\ resp.status = 200)))

\* An approved entry is approved again an hour later: the call is answered
\* 400 and the entry keeps the token, expiry and approved_at it had.
C19_Witness ==
    /\ Approves
    /\ resp.status = 400
    /\ \E e \in EntriesWith(db, req.id) :
          /\ e.status = "approved"
          /\ e.invite_token # NoHash
          /\ e.approved_at # None
          /\ e.approved_at < now
    /\ db = pre

(***************************************************************************)
(* C20: the cap on registrations.                                          *)
(***************************************************************************)
\* C20 as stated, for an address that is not registered yet: a registration
\* without an invite token is answered 403 registration_closed and creates
\* no user whenever the waitlist is enabled, MAX_ACTIVE_USERS is positive
\* and at least that many users are verified; otherwise the cap refuses no
\* registration.  register never asks is_registration_open, so the first
\* half fails.
C20_Original ==
    ( /\ req.op = "register"
      /\ req.body.invite_token = None
      /\ \A u \in pre.users : u.email # req.body.email ) =>
        IF is_registration_open(pre, settings)
        THEN resp.status # 403
        ELSE /\ resp = [status |-> 403, detail |-> "registration_closed"]
             /\ db.users = pre.users

(***************************************************************************)
(* The relationships_update items of a sync batch.                         *)
(***************************************************************************)
\* The session of the call in hand when _update_relationships starts: after
\* the deletes, the creates and the persons_update loop.
BeforeRelationshipUpdates ==
    update_persons(req.body.update["person"], req.tree,
                   phase_creates(req.body, req.tree,
                                 phase_deletes(req.body, req.tree, SessionOf(pre))))

\* The value a field of relationship id has after the update items: that of
\* the last item that provides it, else the value in the row given.
FieldAfterUpdates(row, id, field, absent) ==
    LET items == req.body.update["relationship"]
        given == {i \in Positions(items) : items[i].id = id /\ items[i][field] # absent}
    IN IF given = {} THEN row[field]
       ELSE items[CHOOSE i \in given : \A j \in given : j <= i][field]

\* Whether a relationships_update item names a row of the tree and, where it
\* provides them, persons of the tree as source and target.
AppliesTo(item, s) ==
    /\ item.id \in RowIdsOfTree(s.db, "relationship", req.tree)
    /\ {item.src, item.tgt} \ {None} \subseteq PersonsOfTree(s.db, req.tree)

\* C24: a sync relationship update changes exactly the fields it provides.
\* After a successful batch every relationship an update item names has, in
\* source_person_id, target_person_id and encrypted_data, the value of the
\* last item that provides the field, and the value it had when the update
\* phase started where no item provides it; every provided source and
\* target is a person of the tree.  When the update phase reaches a
\* relationship item whose row is in the tree and whose provided source or
\* target is no person of the tree at that point, the batch fails with the
\* 422 that names that id and nothing is applied.
C24_RelationshipUpdateSetsGivenFields ==
    Sync =>
        LET items == req.body.update["relationship"]
            s == BeforeRelationshipUpdates
            persons == PersonsOfTree(s.db, req.tree)
        IN /\ resp.status = 200 =>
                \A i \in Positions(items) :
                    LET id == items[i].id
                        before == RowOf(s.db, "relationship", id)
                        after == RowOf(db, "relationship", id)
                    IN /\ id \in RowIdsOfTree(db, "relationship", req.tree)
                       /\ after.src = FieldAfterUpdates(before, id, "src", None)
                       /\ after.tgt = FieldAfterUpdates(before, id, "tgt", None)
                       /\ after.data = FieldAfterUpdates(before, id, "data", NoData)
                       /\ {items[i].src, items[i].tgt} \ {None}
                             \subseteq PersonsOfTree(db, req.tree)
           /\ (req.tree \in {t.id : t \in pre.trees} /\ ~Raised(s)) =>
                \A i \in Positions(items) :
                    ( /\ \A j \in 1..(i - 1) : AppliesTo(items[j], s)
                      /\ items[i].id \in RowIdsOfTree(s.db, "relationship", req.tree)
                      /\ ~AppliesTo(items[i], s) ) =>
                        /\ resp.status = 422
                        /\ resp.detail.missing =
                              IF items[i].src \notin persons \cup {None}
                              THEN {items[i].src} ELSE {items[i].tgt}
                        /\ db = pre

\* A batch gave a relationship of the tree a new source and nothing else:
\* the source is the new one, the target and the blob are the old ones.
C24_Witness ==
    /\ Sync
    /\ resp.status = 200
    /\ \E i \in Positions(req.body.update["relationship"]) :
          LET item == req.body.update["relationship"][i]
              before == RowOf(pre, "relationship", item.id)
              after == RowOf(db, "relationship", item.id)
          IN /\ item.id \in RowIdsOfTree(pre, "relationship", req.tree)
             /\ item.src # None /\ item.tgt = None /\ item.data = NoData
             /\ Len(req.body.update["relationship"]) = 1
             /\ before.src # item.src
             /\ after = [before EXCEPT !.src = item.src]

(***************************************************************************)
(* A batch that is sent again after it was applied.                        *)
(***************************************************************************)
Resubmitted == Sync /\ req.again

\* The <<kind, id>> of the create items with a client id.
ClientIds ==
    UNION {{<<k, id>> : id \in ItemIds(req.body.create[k])} : k \in Kinds}

\* Whether the delete phase of the batch removes the row: its id is in the
\* delete list of its kind, or it is a relationship of a person in
\* persons_delete.
DeletedByBatch(d, k, id) ==
    \/ id \in ItemIds(req.body.delete[k])
    \/ /\ k = "relationship"
       /\ \E r \in d.relationships :
             /\ r.id = id
             /\ r.tree = req.tree
             /\ {r.src, r.tgt} \cap ItemIds(req.body.delete["person"]) # {}

\* C25 as stated: a resubmitted batch whose creates carry client ids fails
\* as a whole and leaves the store as the first application left it.
C25_Original ==
    (Resubmitted /\ ClientIds # {}) => (resp.status # 200 /\ db = pre)

\* C25, amended: the create phase does not look for a row with the client
\* id before it inserts.  A resubmitted batch fails with the 500 of the
\* second INSERT and leaves the store as the first application left it
\* whenever some create item carries a client id whose row the batch's own
\* delete phase does not remove first; a batch that deletes every id it
\* creates can be applied again.
C25_ResubmittedCreatesCollide ==
    Resubmitted =>
        /\ \A c \in ClientIds : c[2] \in TableIds(pre, c[1])
        /\ (\E c \in ClientIds : ~DeletedByBatch(pre, c[1], c[2])) =>
              (resp.status = 500 /\ db = pre)

\* A batch that created a row under a client id was sent again and failed;
\* the row of the first application is still there.
C25_Witness ==
    /\ Resubmitted
    /\ \E c \in ClientIds :
          /\ ~DeletedByBatch(pre, c[1], c[2])
          /\ c[2] \in RowIdsOfTree(db, c[1], req.tree)
    /\ resp.status = 500
    /\ db = pre

(***************************************************************************)
(* References to a person the same batch deletes.                          *)
(***************************************************************************)
\* The persons of the tree that persons_delete names.
RemovedPersons == PersonsOfTree(pre, req.tree) \cap ItemIds(req.body.delete["person"])

\* The person ids an update item refers to.
ItemRefs(u) ==
    LET item == req.body.update[u[1]][u[2]]
    IN IF u[1] = "relationship" THEN {item.src, item.tgt} \ {None}
       ELSE IF u[1] \in LinkedKinds THEN ListIds(item.person_ids)
       ELSE {}

\* The row an update item names is in the tree when the update phase starts.
RowSurvives(u) ==
    LET id == req.body.update[u[1]][u[2]].id
    IN /\ id \in RowIdsOfTree(pre, u[1], req.tree)
       /\ ~DeletedByBatch(pre, u[1], id)

\* C26 as stated: a create or an update that names a person removed by
\* persons_delete of the same batch fails with 422 and the batch, the
\* person delete included, is rolled back.
C26_Original ==
    Sync => \A p \in RemovedPersons :
                (p \in CreateRefs \/ \E u \in UpdatePositions :
                                        p \in ItemRefs(u) /\ RowSurvives(u)) =>
                    (resp.status = 422 /\ db = pre)

\* C26, amended: a person removed by persons_delete and not created again
\* under the same id by persons_create is no valid reference in the batch.
\* A batch that names it in a create or an update always fails and is
\* rolled back, the person delete included.  The failure is the 422 of the
\* validation, listing the person, when a create item names it and
\* persons_create inserts cleanly, and the 422 of the update item when the
\* batch creates nothing and the first update item visited names it on a
\* row that is still in the tree; otherwise an earlier failure can be
\* reported instead (500, or the 404 of an update item whose row is gone,
\* as is a relationship of the deleted person).
C26_DeletedPersonIsNoReference ==
    Sync => \A p \in RemovedPersons \ ItemIds(req.body.create["person"]) :
        p \in (CreateRefs \cup UpdateRefs) =>
            /\ resp.status \in {422, 404, 500}
            /\ db = pre
            /\ p \in PersonsOfTree(db, req.tree)
            /\ (p \in CreateRefs /\ CleanIds("person")) =>
                  (resp.status = 422 /\ p \in resp.detail.missing)
            /\ \A u \in UpdatePositions :
                  ( /\ p \in ItemRefs(u)
                    /\ NoItems(req.body.create)
                    /\ IsFirstUpdate(u)
                    /\ RowSurvives(u) ) =>
                      /\ resp.status = 422
                      /\ resp.detail.missing # {}
                      /\ resp.detail.missing \subseteq ItemRefs(u)

\* A batch deleted a person of the tree in its session and created a row
\* that names it: 422, and the person is still there.
C26_Witness ==
    /\ Sync
    /\ resp.status = 422
    /\ \E p \in RemovedPersons \cap CreateRefs :
          /\ \E i \in Positions(log) :
                log[i] = [op |-> "delete", kind |-> "person", id |-> p]
          /\ p \in resp.detail.missing
          /\ p \in PersonsOfTree(db, req.tree)
    /\ db = pre

(***************************************************************************)
(* What the update items of a batch are resolved against.                  *)
(***************************************************************************)
\* The update items on a row of the tree that the delete phase of the batch
\* removes and no create item brings back under the same id.
DeletedUpdates ==
    {u \in UpdatePositions :
        LET id == req.body.update[u[1]][u[2]].id
        IN /\ id \in RowIdsOfTree(pre, u[1], req.tree)
           /\ DeletedByBatch(pre, u[1], id)
           /\ id \notin ItemIds(req.body.create[u[1]])}

\* C27 as stated: an update item on an id deleted by the same batch fails
\* the batch with 404, and the row still exists unchanged.
C27_Original ==
    Sync => \A u \in UpdatePositions :
                LET id == req.body.update[u[1]][u[2]].id
                IN (id \in RowIdsOfTree(pre, u[1], req.tree)
                      /\ id \in ItemIds(req.body.delete[u[1]])) =>
                        /\ resp.status = 404
                        /\ db = pre

\* C27, amended: an update item is resolved against the rows of the tree
\* after the deletes and creates of the same batch.  In a successful batch
\* every update item's row is one the batch created or one that was in the
\* tree and that the batch did not delete.  An update item on a row the
\* batch deletes and does not create again fails the batch, which is rolled
\* back with the row as it was; the response is the 404 naming that item
\* unless an earlier failure is reported (a 422 or 500 of the create phase
\* or the failure of an earlier update item), and it is that 404 when the
\* batch creates nothing and the item is the first update visited.
C27_UpdatesSeeDeletesAndCreates ==
    Sync =>
        /\ resp.status = 200 =>
              \A u \in UpdatePositions :
                  LET id == req.body.update[u[1]][u[2]].id
                  IN /\ id \in RowIdsOfTree(db, u[1], req.tree)
                     /\ \/ id \in Range(resp.created[u[1]])
                        \/ /\ id \in RowIdsOfTree(pre, u[1], req.tree)
                           /\ ~DeletedByBatch(pre, u[1], id)
        /\ \A u \in DeletedUpdates :
              /\ resp.status \in {404, 422, 500}
              /\ db = pre
              /\ RowOf(db, u[1], req.body.update[u[1]][u[2]].id)
                    = RowOf(pre, u[1], req.body.update[u[1]][u[2]].id)
              /\ (NoItems(req.body.create) /\ IsFirstUpdate(u)) =>
                    (resp.status = 404 /\ resp.detail = NotFound(u))

\* A batch deleted a row in its session and then updated it: the 404 names
\* the update item and the row is still stored.
C27_Witness ==
    /\ Sync
    /\ resp.status = 404
    /\ \E u \in DeletedUpdates :
          /\ resp.detail = NotFound(u)
          /\ \E i \in Positions(log) :
                log[i] = [op |-> "delete", kind |-> u[1],
                          id |-> req.body.update[u[1]][u[2]].id]
          /\ req.body.update[u[1]][u[2]].id \in RowIdsOfTree(db, u[1], req.tree)
    /\ db = pre

(***************************************************************************)
(* A sync call and the rows of the other trees.                            *)
(***************************************************************************)
\* The caller owns the tree the request names.
CallerOwnsTree ==
    \E t \in pre.trees : t.id = req.tree /\ t.user = req.user

\* The id names a row of the kind that belongs to another tree.
InOtherTree(k, id) ==
    id \in TableIds(pre, k) \ RowIdsOfTree(pre, k, req.tree)

\* C28: a sync call on tree T never modifies or deletes a row of another
\* tree.  After the call the persons, relationships, linked entities and
\* junction rows of every other tree are those it held before; a batch
\* with an update item whose id names a row of another tree fails, with
\* the 404 of that item when the batch creates nothing and the item is the
\* first update visited; a delete item whose id names a row of another
\* tree is skipped: a batch of deletes only succeeds and counts, per kind,
\* the rows of T it removed.
C28_OtherTreesUntouched ==
    Sync =>
        /\ RowsOfTrees(db, TreeIds \ {req.tree}) = RowsOfTrees(pre, TreeIds \ {req.tree})
        /\ CallerOwnsTree =>
              /\ \A u \in UpdatePositions :
                    InOtherTree(u[1], req.body.update[u[1]][u[2]].id) =>
                        /\ resp.status # 200
                        /\ db = pre
                        /\ (NoItems(req.body.create) /\ IsFirstUpdate(u)) =>
                              (resp.status = 404 /\ resp.detail = NotFound(u))
              /\ (NoItems(req.body.create) /\ NoItems(req.body.update)) =>
                    /\ resp.status = 200
                    /\ \A k \in Kinds :
                          resp.deleted[k] =
                              Cardinality(ItemIds(req.body.delete[k])
                                            \cap RowIdsOfTree(pre, k, req.tree))

\* The owner of one tree sent delete items that name a person and an event
\* of another tree: 200, nothing counted, and the rows are still there.
C28_Witness ==
    /\ Sync
    /\ CallerOwnsTree
    /\ resp.status = 200
    /\ \E id \in ItemIds(req.body.delete["person"]) : InOtherTree("person", id)
    /\ \E id \in ItemIds(req.body.delete["event"]) :
          /\ InOtherTree("event", id)
          /\ PersonLinks(pre, "event", id) # {}
          /\ PersonLinks(db, "event", id) = PersonLinks(pre, "event", id)
    /\ resp.deleted["person"] = 0
    /\ resp.deleted["event"] = 0
    /\ db = pre

(***************************************************************************)
(* A sync call and the contents of the other trees.                        *)
(***************************************************************************)
\* The outcome of the call in hand had the store held the rows of its own
\* tree only.
OutcomeWithoutOtherTrees ==
    sync_tree(RowsOfTrees(pre, {req.tree}), req.user, req.tree, req.body)

\* Every create item of the batch carries a client id, so that no returned
\* id is a generated one.
AllIdsChosen ==
    \A k \in Kinds : \A i \in Positions(req.body.create[k]) :
        req.body.create[k][i].id # None

\* C29 as stated: the outcome of a sync call on tree T (status code,
\* returned ids and counts) depends only on the batch and the contents of
\* T, so with every other tree owned by another user it is the outcome the
\* same batch has when the other trees hold nothing.
C29_Original ==
    ( /\ Sync
      /\ CallerOwnsTree
      /\ AllIdsChosen
      /\ \A t \in pre.trees : t.id # req.tree => t.user # req.user ) =>
        /\ resp.status = OutcomeWithoutOtherTrees.resp.status
        /\ resp.created = OutcomeWithoutOtherTrees.resp.created
        /\ resp.updated = OutcomeWithoutOtherTrees.resp.updated
        /\ resp.deleted = OutcomeWithoutOtherTrees.resp.deleted

(***************************************************************************)
(* A person_ids list that names a person twice.                            *)
(***************************************************************************)
\* The batch holds one item only: a create of a linked entity, without a
\* client id, whose person_ids are persons of the tree and name one twice.
OnlyCreatesWithRepeat(k) ==
    /\ NoItems(req.body.delete)
    /\ NoItems(req.body.update)
    /\ \A j \in Kinds \ {k} : req.body.create[j] = <<>>
    /\ Len(req.body.create[k]) = 1
    /\ req.body.create[k][1].id = None
    /\ ~NoRepeats(req.body.create[k])
    /\ Range(req.body.create[k][1].person_ids) \subseteq PersonsOfTree(pre, req.tree)

\* C30 as stated: a create whose person_ids list repeats a valid person id
\* succeeds, and the entity is associated once with each person named.
C30_Original ==
    Sync => \A k \in LinkedKinds :
                OnlyCreatesWithRepeat(k) =>
                    /\ resp.status = 200
                    /\ Len(resp.created[k]) = 1
                    /\ PersonLinks(db, k, resp.created[k][1])
                          = Range(req.body.create[k][1].person_ids)

(***************************************************************************)
(* The order of the create phase, read from the log of the call.           *)
(***************************************************************************)
\* The ids of the rows of a kind the call has added, in the order added.
CreatedInSession(k) ==
    LET IsCreate(e) == e.op = "create" /\ e.kind = k
        entries == SelectSeq(log, IsCreate)
    IN [i \in 1..Len(entries) |-> entries[i].id]

\* The ids of the rows of a kind the delete phase of the call has removed.
DeletedInSession(k) ==
    {log[i].id : i \in {j \in Positions(log) : log[j].op = "delete" /\ log[j].kind = k}}

\* The ids of a kind in use when the create phase starts.
InUseAfterDeletes(k) ==
    {id \in TableIds(pre, k) \ DeletedInSession(k) :
        k = "relationship" =>
            \A r \in pre.relationships :
                r.id = id => {r.src, r.tgt} \cap DeletedInSession("person") = {}}

\* The rows of a kind are inserted without meeting a key in use.
InsertsCleanly(k) ==
    LET created == CreatedInSession(k)
    IN /\ Range(created) \cap InUseAfterDeletes(k) = {}
       /\ \A i, j \in Positions(created) : i # j => created[i] # created[j]

\* The persons of the tree when the references of the creates are validated.
PersonsAtValidation ==
    (PersonsOfTree(pre, req.tree) \ DeletedInSession("person"))
        \cup Range(CreatedInSession("person"))

\* The positions in the log of the relationship and linked-entity inserts
\* and of the junction rows of the create phase.
InsertPositions ==
    {i \in Positions(log) : log[i].op = "create" /\ log[i].kind # "person"}

LinkPositions == {i \in Positions(log) : log[i].op = "link"}

\* The junction rows the create items of a kind ask for, given the ids
\* created for them.
RowsAskedFor(k, created) ==
    UNION {Range(LinkEntries(k, created[i], req.body.create[k][i].person_ids)) :
             i \in Positions(req.body.create[k])}

\* C23: in the create phase no relationship or linked-entity row is
\* inserted unless the one validation of all person ids the creates refer
\* to has passed (after persons_create was flushed; it fails with a 422
\* that lists every missing id); no junction row is added unless the
\* relationship and entity rows have been flushed, and all of them are
\* added after every such insert; and the junction rows added are exactly
\* those of the create items, the rows of the i-th item of a kind carrying
\* the i-th id created for that kind, which is the id returned at position
\* i.
C23_CreatePhaseOrder ==
    Sync =>
        /\ (InsertPositions \cup LinkPositions # {}) =>
              /\ InsertsCleanly("person")
              /\ CreateRefs \subseteq PersonsAtValidation
        /\ (InsertsCleanly("person") /\ CreateRefs \ PersonsAtValidation # {}) =>
              /\ resp.status = 422
              /\ resp.detail.missing = CreateRefs \ PersonsAtValidation
        /\ LinkPositions # {} =>
              /\ \A k \in Kinds \ {"person"} : InsertsCleanly(k)
              /\ \A i \in InsertPositions, j \in LinkPositions : i < j
        /\ resp.status = 200 =>
              \A k \in Kinds : CreatedInSession(k) = resp.created[k]
        /\ (LinkPositions # {} \/ resp.status = 200) =>
              \A k \in LinkedKinds :
                  /\ Len(CreatedInSession(k)) = Len(req.body.create[k])
                  /\ {log[j] : j \in {i \in LinkPositions : log[i].kind = k}}
                        = RowsAskedFor(k, CreatedInSession(k))

\* A batch created two entities of one kind, each with a person: each
\* junction row was added after both inserts and carries the id returned
\* at the position of its item.
C23_Witness ==
    /\ Sync
    /\ resp.status = 200
    /\ \E k \in LinkedKinds :
          /\ Len(req.body.create[k]) = 2
          /\ resp.created[k][1] # resp.created[k][2]
          /\ \A i \in {1, 2} :
                /\ req.body.create[k][i].person_ids # <<>>
                /\ \E j \in LinkPositions :
                      /\ log[j].id = resp.created[k][i]
                      /\ log[j].pid \in Range(req.body.create[k][i].person_ids)
                      /\ \A c \in InsertPositions : c < j
                /\ PersonLinks(db, k, resp.created[k][i])
                      = Range(req.body.create[k][i].person_ids)

(***************************************************************************)
(* Two sync calls in flight on one tree.  Each request has its own session *)
(* and transaction (get_db, api/app/database.py); the engine is created    *)
(* without an isolation level, so the default of the database applies: a   *)
(* statement reads what is committed when it runs, and the transaction's   *)
(* own writes.  A transaction is modelled by the rows it has removed or    *)
(* replaced (gone, by key) and the rows it has written (added).  The       *)
(* statements of a phase run as one step.  The constraints of the schema   *)
(* (primary keys, foreign keys and their ON DELETE actions) take effect    *)
(* when the transaction commits: a statement the database holds back on a  *)
(* row lock of the other transaction ends as it does once that transaction *)
(* is over.                                                                *)
(***************************************************************************)
NoWrites == [persons |-> {}, relationships |-> {}, entities |-> {}, links |-> {}]

IdleTx ==
    [pc |-> "idle", tree |-> None, body |-> EmptyBatch, gone |-> NoWrites,
     added |-> NoWrites, resp |-> SyncResponse]

\* Tree 1 with two persons, a relationship and an event without
\* associations, and a second tree of the same user with a person.
RaceDb ==
    [trees |-> {[id |-> 1, user |-> "u1"], [id |-> 2, user |-> "u1"]},
     persons |-> {[id |-> 1, tree |-> 1, data |-> NewBlob],
                  [id |-> 2, tree |-> 2, data |-> NewBlob],
                  [id |-> 3, tree |-> 1, data |-> NewBlob]},
     relationships |-> {[id |-> 1, tree |-> 1, src |-> 3, tgt |-> 3, data |-> NewBlob]},
     entities |-> {[kind |-> "event", id |-> 1, tree |-> 1, data |-> NewBlob]},
     links |-> {}]

\* The batches of the two calls: a person delete, creates that refer to
\* that person (or to a person of the other tree), and updates that re-link
\* the relationship or replace the person_ids of the event.
RaceBatches ==
    {[EmptyBatch EXCEPT !.delete["person"] = <<Delete(1)>>],
     [EmptyBatch EXCEPT !.create["relationship"] = <<RelationshipCreate(2, 1, 3)>>],
     [EmptyBatch EXCEPT !.create["relationship"] = <<RelationshipCreate(2, 2, 3)>>],
     [EmptyBatch EXCEPT !.create["event"] = <<LinkedCreate(2, <<1>>)>>],
     [EmptyBatch EXCEPT !.update["relationship"] = <<RelationshipUpdate(1, 1, None, NoData)>>],
     [EmptyBatch EXCEPT !.update["event"] = <<LinkedUpdate(1, <<1>>, NoData)>>],
     [EmptyBatch EXCEPT !.update["event"] = <<LinkedUpdate(1, <<3>>, NoData)>>]}

\* What the statements of a transaction read: the committed rows it has not
\* removed or replaced, and the rows it has written.
Overlay(d, tx) ==
    [trees |-> d.trees,
     persons |-> {p \in d.persons : p.id \notin tx.gone.persons} \cup tx.added.persons,
     relationships |->
         {r \in d.relationships : r.id \notin tx.gone.relationships}
             \cup tx.added.relationships,
     entities |->
         {e \in d.entities : <<e.kind, e.id>> \notin tx.gone.entities}
             \cup tx.added.entities,
     links |-> (d.links \ tx.gone.links) \cup tx.added.links]

\* The transaction after a phase that took the session from view to after.
Written(tx, view, after) ==
    [tx EXCEPT
       !.gone = [persons |-> @.persons \cup {p.id : p \in view.persons \ after.persons},
                 relationships |->
                     @.relationships
                         \cup {r.id : r \in view.relationships \ after.relationships},
                 entities |->
                     @.entities
                         \cup {<<e.kind, e.id>> : e \in view.entities \ after.entities},
                 links |-> @.links \cup (view.links \ after.links)],
       !.added = [persons |-> (@.persons \cap after.persons)
                                 \cup (after.persons \ view.persons),
                  relationships |-> (@.relationships \cap after.relationships)
                                       \cup (after.relationships \ view.relationships),
                  entities |-> (@.entities \cap after.entities)
                                  \cup (after.entities \ view.entities),
                  links |-> (@.links \cap after.links) \cup (after.links \ view.links)]]

\* The except branches of sync_tree: rollback, and the error is the response.
Failed(tx, status_code, detail) ==
    [tx EXCEPT !.pc = "done", !.gone = NoWrites, !.added = NoWrites,
               !.resp = ErrorResponse(status_code, detail)]

\* The phase a call is at, run on what its session reads.
PhaseOf(tx, s) ==
    CASE tx.pc = "deletes" -> phase_deletes(tx.body, tx.tree, s)
      [] tx.pc = "creates" -> phase_creates(tx.body, tx.tree, s)
      [] tx.pc = "updates" -> phase_updates(tx.body, tx.tree, s)

AfterPhase(tx, view, s) ==
    IF Raised(s) THEN Failed(tx, s.resp.status, s.resp.detail)
    ELSE [Written(tx, view, s.db) EXCEPT
            !.pc = CASE tx.pc = "deletes" -> "creates"
                     [] tx.pc = "creates" -> "updates"
                     [] tx.pc = "updates" -> "commit",
            !.resp = s.resp]

\* A row the transaction inserted has a primary key that a committed row
\* holds.
KeyInUse(d, tx) ==
    \/ \E p \in tx.added.persons :
          p.id \in TableIds(d, "person") \ tx.gone.persons
    \/ \E r \in tx.added.relationships :
          r.id \in TableIds(d, "relationship") \ tx.gone.relationships
    \/ \E e \in tx.added.entities :
          <<e.kind, e.id>> \in {<<c.kind, c.id>> : c \in d.entities} \ tx.gone.entities
    \/ tx.added.links \cap (d.links \ tx.gone.links) # {}

\* The foreign keys of the rows given: a relationship's source and target
\* and a junction row's entity and person exist.
ForeignKeysHold(d, rows) ==
    /\ \A r \in rows.relationships : {r.src, r.tgt} \subseteq TableIds(d, "person")
    /\ \A l \in rows.links :
          /\ l.pid \in TableIds(d, "person")
          /\ l.eid \in TableIds(d, l.kind)

\* ON DELETE CASCADE: the rows that refer to a row that is gone go with it.
OnDeleteCascade(d) ==
    [d EXCEPT !.relationships = {r \in @ : ForeignKeysHold(d, [NoWrites EXCEPT
                                                 !.relationships = {r}])},
              !.links = {l \in @ : ForeignKeysHold(d, [NoWrites EXCEPT !.links = {l}])}]

\* Fault variant of the commit: the schema declares no foreign keys.
commit_without_foreign_keys(d, tx, on_delete) ==
    IF KeyInUse(d, tx)
    THEN [db |-> d, tx |-> Failed(tx, 500, [msg |-> "internal_server_error"])]
    ELSE [db |-> Overlay(d, tx), tx |-> [tx EXCEPT !.pc = "done"]]

\* db.commit() of one of two transactions.  The writes become the committed
\* rows unless a constraint fails (IntegrityError: 500, rollback).  The
\* junction tables declare ON DELETE CASCADE; the action of the
\* relationships' foreign keys is the parameter on_delete.
commit_transaction(d, tx, on_delete) ==
    IF \/ KeyInUse(d, tx)
       \/ ~ForeignKeysHold(Overlay(d, tx), tx.added)
       \/ /\ on_delete = "NO ACTION"
          /\ ~ForeignKeysHold(Overlay(d, tx),
                              [NoWrites EXCEPT
                                 !.relationships = Overlay(d, tx).relationships])
    THEN [db |-> d, tx |-> Failed(tx, 500, [msg |-> "internal_server_error"])]
    ELSE [db |-> OnDeleteCascade(Overlay(d, tx)), tx |-> [tx EXCEPT !.pc = "done"]]

RaceInit ==
    /\ db = RaceDb
    /\ pre = RaceDb
    /\ req = NoReq
    /\ resp = NoResp
    /\ log = <<>>
    /\ calls = 0
    /\ syncs = 0
    /\ now = 1
    /\ settings = Settings
    /\ drawn = 0
    /\ txs = <<IdleTx, IdleTx>>

\* The owner posts a batch for tree 1: the session and its transaction begin.
BeginSync ==
    /\ \E i \in DOMAIN txs, body \in RaceBatches :
          /\ txs[i].pc = "idle"
          /\ get_owned_tree(db, "u1", 1)
          /\ txs' = [txs EXCEPT ![i] = [IdleTx EXCEPT !.pc = "deletes", !.tree = 1,
                                                      !.body = body]]
    /\ UNCHANGED <<db, pre, req, resp, log, calls, syncs, now, settings, drawn>>

\* One call runs its next phase.
RunPhase ==
    /\ \E i \in DOMAIN txs :
          /\ txs[i].pc \in {"deletes", "creates", "updates"}
          /\ txs' = [txs EXCEPT ![i] =
                        AfterPhase(txs[i], Overlay(db, txs[i]),
                                   PhaseOf(txs[i], [SessionOf(Overlay(db, txs[i])) EXCEPT
                                                       !.resp = txs[i].resp]))]
    /\ UNCHANGED <<db, pre, req, resp, log, calls, syncs, now, settings, drawn>>

Committing(i, out) ==
    /\ db' = out.db
    /\ txs' = [txs EXCEPT ![i] = out.tx]
    /\ UNCHANGED <<pre, req, resp, log, calls, syncs, now, settings, drawn>>

\* One call commits.
CommitSync ==
    \E i \in DOMAIN txs, on_delete \in {"CASCADE", "NO ACTION"} :
        /\ txs[i].pc = "commit"
        /\ Committing(i, commit_transaction(db, txs[i], on_delete))

RaceNext ==
    \/ BeginSync
    \/ RunPhase
    \/ CommitSync

RaceSpec == RaceInit /\ [][RaceNext]_vars

\* Both calls are over and were answered 200.
BothCommitted ==
    \A i \in DOMAIN txs : txs[i].pc = "done" /\ txs[i].resp.status = 200

\* C21: for any interleaving of two concurrent sync calls of the owner on
\* one tree, every committed state satisfies referential integrity: the
\* source and target of every relationship and the person of every
\* junction row exist and belong to the tree of the relationship or of the
\* junction row's entity, and the entity exists.
C21_ConcurrentSyncsKeepIntegrity ==
    /\ \A r \in db.relationships : \A id \in {r.src, r.tgt} :
          \E p \in db.persons : p.id = id /\ p.tree = r.tree
    /\ \A l \in db.links :
          \E e \in db.entities, p \in db.persons :
             /\ e.kind = l.kind
             /\ e.id = l.eid
             /\ p.id = l.pid
             /\ p.tree = e.tree

\* One call deleted person 1 while the other created an event associated
\* with it; both were answered 200, and the committed store holds the event
\* without the person and without a junction row.
C21_Witness ==
    /\ BothCommitted
    /\ \E i, j \in DOMAIN txs :
          /\ txs[i].resp.deleted["person"] = 1
          /\ txs[j].resp.created["event"] = <<2>>
    /\ 1 \notin TableIds(db, "person")
    /\ 2 \in RowIdsOfTree(db, "event", 1)
    /\ PersonLinks(db, "event", 2) = {}

\* C22 as stated: when two concurrent calls each replace the person_ids of
\* the same entity and both commit, the entity's associations are the set
\* one of the two calls asked for.
C22_Original ==
    \A i, j \in DOMAIN txs :
        ( /\ BothCommitted
          /\ i # j
          /\ Len(txs[i].body.update["event"]) = 1
          /\ Len(txs[j].body.update["event"]) = 1 ) =>
            PersonLinks(db, "event", 1)
                \in {Range(txs[i].body.update["event"][1].person_ids),
                     Range(txs[j].body.update["event"][1].person_ids)}

====
